---- MODULE Spec2Model ----
(***************************************************************************)
(* File management system: the file-record lifecycle (fileController.js    *)
(* create / update / delete / download with their blob side effects), the  *)
(* upload middleware's stored-name construction, the FileRecord pre-save   *)
(* hook, the list / export query engine, the gate in front of the routes   *)
(* (protect) and the college accounts of authController.js.                *)
(*                                                                         *)
(* An action is one run-to-completion segment of a request handler: the    *)
(* code between two awaits.  Strings the code inspects character by        *)
(* character (file names, descriptions) are sequences of one-character     *)
(* strings; a digit run or a uuid the code never looks into is kept as one *)
(* element.  Times are milliseconds since 2024-01-01T00:00:00Z.            *)
(***************************************************************************)
EXTENDS Integers, Sequences, FiniteSets, TLC

VARIABLES
    records,    \* Record Store: id -> FileRecord document (domain = existing ids)
    blobs,      \* Blob Storage: the set of file paths present in the uploads dir
    nextId,     \* ObjectIds handed out so far
    nextUniq,   \* stored names generated so far (Date.now() / uuidv4())
    arrived,    \* requests received so far
    req,        \* the in-flight request (Idle when none)
    resp,       \* the last response sent
    deleted,    \* ids for which a Delete has answered 200
    before,     \* Record Store and Blob Storage when the in-flight request arrived
    emitted,    \* events the in-flight / last request passed to io.emit, in order
    tz,         \* the server's time zone: minutes east of UTC
    query,      \* req.query of the List / Export requests of a client session
    pages,      \* the List responses of the session so far, page 1 first
    exported,   \* the Export response of the session (NoExport before it)
    parked,     \* a second in-flight request, waiting at an await while req runs
    colleges    \* the colleges collection: _id -> College document

lifecycleVars ==
    <<records, blobs, nextId, nextUniq, arrived, req, resp, deleted, before, emitted>>
\* what the handlers of the file-record lifecycle leave alone
queryVars == <<tz, query, pages, exported, parked, colleges>>
vars == <<lifecycleVars, queryVars>>

----------------------------------------------------------------------------
(* Bounds of the model *)

MaxRequests == 3

----------------------------------------------------------------------------
(* Values *)

Undefined == <<"<undefined>">>     \* a body field the client did not send
Null      == <<"<null>">>          \* a stored null
NoFile    == [present |-> FALSE]   \* req.file when nothing was uploaded
NoDoc     == [found |-> FALSE]     \* findById's null
Idle      == [op |-> "idle"]
NoResp    == [op |-> "none", id |-> 0, status |-> 0, stage |-> "none", uploaded |-> FALSE]
UnknownId == 0                     \* a well-formed ObjectId that was never assigned
ActorId   == "u1"                  \* req.user.id set by protect
NoQuery   == [none |-> TRUE]
NoExport  == [none |-> TRUE]

Aborted == 0    \* no response: the handler's promise rejected (process exits)

Str(s) == [i \in 1..Len(s) |-> s[i]]

Min(a, b) == IF a < b THEN a ELSE b

----------------------------------------------------------------------------
(* Characters *)

Lower == {"a","b","c","d","e","f","g","h","i","j","k","l","m",
          "n","o","p","q","r","s","t","u","v","w","x","y","z"}
UpperToLower ==
    [c \in {"A","B","C","D","E","F","G","H","I","J","K","L","M",
            "N","O","P","Q","R","S","T","U","V","W","X","Y","Z"} |->
       CASE c = "A" -> "a" [] c = "B" -> "b" [] c = "C" -> "c" [] c = "D" -> "d"
         [] c = "E" -> "e" [] c = "F" -> "f" [] c = "G" -> "g" [] c = "H" -> "h"
         [] c = "I" -> "i" [] c = "J" -> "j" [] c = "K" -> "k" [] c = "L" -> "l"
         [] c = "M" -> "m" [] c = "N" -> "n" [] c = "O" -> "o" [] c = "P" -> "p"
         [] c = "Q" -> "q" [] c = "R" -> "r" [] c = "S" -> "s" [] c = "T" -> "t"
         [] c = "U" -> "u" [] c = "V" -> "v" [] c = "W" -> "w" [] c = "X" -> "x"
         [] c = "Y" -> "y" [] c = "Z" -> "z"]
Upper == DOMAIN UpperToLower
Digits == {"0","1","2","3","4","5","6","7","8","9"}

ToLowerChar(c) == IF c \in Upper THEN UpperToLower[c] ELSE c
\* String.prototype.toLowerCase
ToLowerCase(s) == [i \in 1..Len(s) |-> ToLowerChar(s[i])]

IsSpace(c) == c \in {" ", "\t", "\n"}

RECURSIVE TrimLeft(_)
TrimLeft(s) == IF s # <<>> /\ IsSpace(Head(s)) THEN TrimLeft(Tail(s)) ELSE s
RECURSIVE TrimRight(_)
TrimRight(s) ==
    IF s # <<>> /\ IsSpace(s[Len(s)]) THEN TrimRight(SubSeq(s, 1, Len(s) - 1)) ELSE s
\* String.prototype.trim
Trim(s) == TrimRight(TrimLeft(s))

----------------------------------------------------------------------------
(* path.extname / path.basename, the upload middleware's storage.filename, *)
(* and the FileRecord pre-save hook                                        *)

DotPositions(name) == {i \in 1..Len(name) : name[i] = "."}
LastDot(name) == CHOOSE i \in DotPositions(name) : \A j \in DotPositions(name) : j <= i

\* path.extname: from the last "." to the end; "" when there is no ".", when
\* the only "." is the first character, or when the name is ".."
Extname(name) ==
    IF DotPositions(name) = {} THEN <<>>
    ELSE IF LastDot(name) = 1 THEN <<>>
    ELSE IF name = <<".", ".">> THEN <<>>
    ELSE SubSeq(name, LastDot(name), Len(name))

\* path.basename(name, ext) for ext = path.extname(name)
Basename(name, ext) == SubSeq(name, 1, Len(name) - Len(ext))

IsAlnum(c) == c \in Lower \cup Upper \cup Digits

BaseNameLimit == 50

\* .replace(/[^a-zA-Z0-9]/g, '_').substring(0, 50)
SanitizeBase(base) ==
    LET r == [i \in 1..Len(base) |-> IF IsAlnum(base[i]) THEN base[i] ELSE "_"]
    IN  SubSeq(r, 1, Min(BaseNameLimit, Len(r)))

\* Date.now() and uuidv4() of the n-th generated name
DateNowOf(n) == <<"1700000000000", "1700000000001", "1700000000002", "1700000000003",
                  "1700000000004", "1700000000005">>[n]
UuidOf(n) == <<"uuid-a", "uuid-b", "uuid-c", "uuid-d", "uuid-e", "uuid-f">>[n]

\* storage.filename: `${Date.now()}_${baseName}_${uniqueSuffix}${ext}`
StorageFilename(n, originalname) ==
    LET ext == Extname(originalname)
        baseName == SanitizeBase(Basename(originalname, ext))
    IN  <<DateNowOf(n), "_">> \o baseName \o <<"_", UuidOf(n)>> \o ext

\* path.join(uploadsDir, filename)
UploadPath(filename) == <<"uploads", "/">> \o filename

AllowedMimeTypes ==
    {"application/pdf", "application/msword",
     "application/vnd.openxmlformats-officedocument.wordprocessingml.document",
     "application/vnd.ms-excel",
     "application/vnd.openxmlformats-officedocument.spreadsheetml.sheet",
     "application/vnd.ms-powerpoint",
     "application/vnd.openxmlformats-officedocument.presentationml.presentation",
     "text/plain", "text/csv",
     "image/jpeg", "image/png", "image/gif", "image/bmp", "image/webp", "image/svg+xml",
     "application/zip", "application/x-rar-compressed", "application/x-7z-compressed",
     "application/json", "application/xml", "text/xml"}

FILE_TYPE_CHOICES == {"PDF", "DOCX", "XLSX", "Image", "Other"}

\* the switch of the pre-save hook, on an already lower-cased extension
SwitchExt(ext) ==
    CASE ext = Str(<<".", "p", "d", "f">>) -> "PDF"
      [] ext = Str(<<".", "d", "o", "c", "x">>) -> "DOCX"
      [] ext = Str(<<".", "d", "o", "c">>) -> "DOCX"
      [] ext = Str(<<".", "x", "l", "s", "x">>) -> "XLSX"
      [] ext = Str(<<".", "x", "l", "s">>) -> "XLSX"
      [] ext = Str(<<".", "j", "p", "g">>) -> "Image"
      [] ext = Str(<<".", "j", "p", "e", "g">>) -> "Image"
      [] ext = Str(<<".", "p", "n", "g">>) -> "Image"
      [] ext = Str(<<".", "g", "i", "f">>) -> "Image"
      [] ext = Str(<<".", "b", "m", "p">>) -> "Image"
      [] ext = Str(<<".", "w", "e", "b", "p">>) -> "Image"
      [] OTHER -> "Other"

\* the hook's extension without .toLowerCase()
PreSaveExtCaseSensitive(fileName) == Extname(fileName)

\* FileRecordSchema.pre('save'): fileType from the extension of fileName
PreSaveExt(fileName) == ToLowerCase(Extname(fileName))

PreSave(doc) ==
    IF doc.fileName # <<>>
    THEN [doc EXCEPT !.fileType = SwitchExt(PreSaveExt(doc.fileName))]
    ELSE doc

DescriptionMaxLen == 2000
ReferenceMaxLen == 255

MsPerDay == 86400000

\* new Date("YYYY-MM-DD"): midnight UTC of that day; IsDateString is false of a
\* string new Date() turns into Invalid Date
IsDateString(s) == s \in {"2024-01-15", "2024-01-16"}
ParseDate(s) == IF s = "2024-01-15" THEN 14 * MsPerDay ELSE 15 * MsPerDay

NullDate  == [kind |-> "null"]
CastError == [kind |-> "castError"]
DateOf(ms) == [kind |-> "date", ms |-> ms]
\* Mongoose's cast of a value assigned to a Date path
CastDate(s) == IF IsDateString(s) THEN DateOf(ParseDate(s)) ELSE CastError

UndefinedStr == "<undefined>"   \* a string-valued field the client did not send

\* Mongoose validation at save(): the required / maxlength / enum validators
\* and the Date cast of fileDate
Validates(doc) ==
    /\ Len(doc.description) >= 1
    /\ Len(doc.description) <= DescriptionMaxLen
    /\ doc.fileName # <<>>
    /\ doc.originalName # <<>>
    /\ doc.filePath # <<>>
    /\ doc.fileType \in FILE_TYPE_CHOICES
    /\ (doc.letterReferenceNumber # Null =>
            Len(doc.letterReferenceNumber) <= ReferenceMaxLen)
    /\ doc.fileDate # CastError

----------------------------------------------------------------------------
(* Requests                                                                *)

\* the file part of a multipart request, as the client sends it
Uploads ==
    {[present |-> TRUE, originalname |-> n, mimetype |-> m, size |-> 1] :
        n \in {<<"r", ".", "P", "D", "F">>, <<"n", ".", "t", "x", "t">>},
        m \in {"application/pdf"}}
    \cup {[present |-> TRUE, originalname |-> <<"x", ".", "e", "x", "e">>,
           mimetype |-> "application/x-msdownload", size |-> 1]}

Descriptions == {Undefined, <<" ">>, <<"a">>}
FileDates == {UndefinedStr, "2024-01-15", "not-a-date"}
References == {Undefined}

Bodies ==
    [description : Descriptions, fileDate : FileDates, letterReferenceNumber : References]
NoBody ==
    [description |-> Undefined, fileDate |-> UndefinedStr, letterReferenceNumber |-> Undefined]

\* ids a client can name: every id handed out so far, and one that never was
KnownIds == (1..nextId) \cup {UnknownId}

Request(op, id, body, upload) ==
    [op |-> op, id |-> id, body |-> body, upload |-> upload,
     file |-> NoFile, doc |-> NoDoc, loaded |-> NoDoc,
     pc |-> IF op \in {"create", "update"} THEN "multer" ELSE "find"]

\* after the upload middleware: createFileRecord runs, or the other handlers'
\* first statement, await FileRecord.findById(req.params.id)
AfterMulter(op) == IF op = "create" THEN "handler" ELSE "find"

\* The request ends with this status.  stage is the segment that ended it and
\* uploaded whether the upload middleware had stored a file for it.
Response(r, id, status) ==
    [op |-> r.op, id |-> id, status |-> status, stage |-> r.pc,
     uploaded |-> r.file.present]

Respond(status) ==
    /\ resp' = Response(req, req.id, status)
    /\ req' = Idle

\* A request arrives (protect has let it through) and is routed
Arrive ==
    /\ req = Idle
    /\ arrived < MaxRequests
    /\ arrived' = arrived + 1
    /\ before' = [records |-> records, blobs |-> blobs, deleted |-> deleted]
    /\ \/ \E b \in Bodies, u \in Uploads \cup {NoFile} :
            req' = Request("create", UnknownId, b, u)
       \/ \E i \in KnownIds, b \in Bodies, u \in Uploads \cup {NoFile} :
            req' = Request("update", i, b, u)
       \/ \E i \in KnownIds : req' = Request("delete", i, NoBody, NoFile)
       \/ \E i \in KnownIds : req' = Request("download", i, NoBody, NoFile)
    /\ emitted' = <<>>
    /\ UNCHANGED <<records, blobs, nextId, nextUniq, resp, deleted>>
    /\ UNCHANGED queryVars

\* upload.single('file') and handleMulterError: the fileFilter rejects a mime
\* type outside the allow-list (400, nothing written); otherwise diskStorage
\* writes the blob under a fresh stored name and sets req.file
MulterUpload ==
    /\ req # Idle
    /\ req.pc = "multer"
    /\ IF ~req.upload.present
       THEN /\ req' = [req EXCEPT !.pc = AfterMulter(req.op)]
            /\ UNCHANGED <<blobs, nextUniq, resp>>
       ELSE IF req.upload.mimetype \notin AllowedMimeTypes
       THEN /\ Respond(400)
            /\ UNCHANGED <<blobs, nextUniq>>
       ELSE LET filename == StorageFilename(nextUniq + 1, req.upload.originalname)
                file == [present |-> TRUE,
                         filename |-> filename,
                         originalname |-> req.upload.originalname,
                         path |-> UploadPath(filename),
                         size |-> req.upload.size,
                         mimetype |-> req.upload.mimetype]
            IN  /\ nextUniq' = nextUniq + 1
                /\ blobs' = blobs \cup {file.path}
                /\ req' = [req EXCEPT !.file = file, !.pc = AfterMulter(req.op)]
                /\ UNCHANGED resp
    /\ UNCHANGED <<records, nextId, arrived, deleted, before>>
    /\ UNCHANGED <<emitted, queryVars>>

\* the catch block without its unlinkSync
CatchCleanupKeepsFile(file, store, unlinkOk) == [blobs |-> store, status |-> 500]

\* The catch block of createFileRecord / updateFileRecord: remove the uploaded
\* file if it is still there, then answer 500.  unlinkOk = FALSE: unlinkSync
\* throws inside the catch block, the handler's promise rejects and no
\* response is sent.
CatchCleanup(file, store, unlinkOk) ==
    IF file.present /\ file.path \in store
    THEN IF unlinkOk THEN [blobs |-> store \ {file.path}, status |-> 500]
                     ELSE [blobs |-> store, status |-> Aborted]
    ELSE [blobs |-> store, status |-> 500]

\* Date.now() when the request is handled
Now == 14 * MsPerDay + arrived

Falsy(s) == s = Undefined \/ s = <<>>

\* the test without its .trim() half
DescriptionMissingNoTrim(d) == Falsy(d)

\* !description || !description.trim()
DescriptionMissing(d) == Falsy(d) \/ Trim(d) = <<>>

\* new FileRecord({...}) of createFileRecord, with the schema's defaults and
\* trim setters
NewFileRecord(id, body, file, now) ==
    [found |-> TRUE,
     id |-> id,
     description |-> Trim(body.description),
     fileName |-> Trim(file.filename),
     originalName |-> Trim(file.originalname),
     filePath |-> file.path,
     fileType |-> "Other",
     fileSize |-> file.size,
     mimeType |-> file.mimetype,
     fileDate |-> IF body.fileDate \in {UndefinedStr, ""}
                  THEN NullDate ELSE CastDate(body.fileDate),
     letterReferenceNumber |-> IF Falsy(body.letterReferenceNumber)
                               THEN Null ELSE Trim(body.letterReferenceNumber),
     uploadedBy |-> ActorId,
     uploadDateTime |-> now]

\* createFileRecord up to `await fileRecord.save()`.  F is the set of outcomes
\* a file-system call can have and D those of a database write (TRUE: the call
\* succeeds, FALSE: it throws / rejects).
CreateHandler(F) ==
    /\ req # Idle
    /\ req.op = "create" /\ req.pc = "handler"
    /\ IF DescriptionMissing(req.body.description)
       THEN /\ UNCHANGED nextId
            /\ IF req.file.present
               THEN \E unlinkOk \in F, cleanupOk \in F :
                      IF unlinkOk
                      THEN /\ blobs' = blobs \ {req.file.path}
                           /\ Respond(400)
                      ELSE LET c == CatchCleanup(req.file, blobs, cleanupOk)
                           IN  /\ blobs' = c.blobs
                               /\ Respond(c.status)
               ELSE /\ Respond(400)
                    /\ UNCHANGED blobs
       ELSE IF ~req.file.present
       THEN /\ Respond(400)
            /\ UNCHANGED <<blobs, nextId>>
       ELSE /\ nextId' = nextId + 1
            /\ req' = [req EXCEPT
                         !.doc = NewFileRecord(nextId + 1, req.body, req.file, Now),
                         !.pc = "save"]
            /\ UNCHANGED <<blobs, resp>>
    /\ UNCHANGED <<records, nextUniq, arrived, deleted, before>>
    /\ UNCHANGED <<emitted, queryVars>>

\* document.save(): validation, then the pre-save hook, then the write
SaveSucceeds(doc, dbOk) == Validates(doc) /\ dbOk

\* an emit that always announces an update
RecordEventAlwaysUpdated(kind, doc) == [kind |-> "file:updated", record |-> doc]

\* the payloads of io.emit('file:created' / 'file:updated' / 'file:deleted', ...)
RecordEvent(kind, doc) == [kind |-> kind, record |-> doc]
DeletedEvent(id) == [kind |-> "file:deleted", recordId |-> id]

\* createFileRecord from the save's outcome on: the event and 201, or the
\* catch block.  E is the set of outcomes io.emit can have (FALSE: it throws,
\* inside the try block, after the save).
CreateSave(F, D, E) ==
    /\ req # Idle
    /\ req.op = "create" /\ req.pc = "save"
    /\ \E dbOk \in D, emitOk \in E, cleanupOk \in F :
         IF SaveSucceeds(req.doc, dbOk)
         THEN /\ records' = (req.doc.id :> PreSave(req.doc)) @@ records
              /\ IF emitOk
                 THEN /\ emitted' = Append(emitted, RecordEvent("file:created", PreSave(req.doc)))
                      /\ resp' = Response(req, req.doc.id, 201)
                      /\ req' = Idle
                      /\ UNCHANGED blobs
                 ELSE LET c == CatchCleanup(req.file, blobs, cleanupOk)
                      IN  /\ blobs' = c.blobs
                          /\ resp' = Response(req, req.doc.id, c.status)
                          /\ req' = Idle
                          /\ UNCHANGED emitted
         ELSE LET c == CatchCleanup(req.file, blobs, cleanupOk)
              IN  /\ blobs' = c.blobs
                  /\ Respond(c.status)
                  /\ UNCHANGED <<records, emitted>>
    /\ UNCHANGED <<nextId, nextUniq, arrived, deleted, before>>
    /\ UNCHANGED queryVars

\* await FileRecord.findById(req.params.id) of update / delete / download;
\* loaded keeps the document as it was read, doc is the one the handler edits
FindById ==
    /\ req # Idle
    /\ req.pc = "find"
    /\ req' = [req EXCEPT
                 !.doc = IF req.id \in DOMAIN records THEN records[req.id] ELSE NoDoc,
                 !.loaded = IF req.id \in DOMAIN records THEN records[req.id] ELSE NoDoc,
                 !.pc = "found"]
    /\ UNCHANGED <<records, blobs, nextId, nextUniq, arrived, resp, deleted, before>>
    /\ UNCHANGED <<emitted, queryVars>>

\* an "Update fields" step that stamps the record anew
UpdateFieldsRestamps(doc, body) == [doc EXCEPT !.uploadDateTime = 0, !.uploadedBy = "u2"]

\* the "Update fields" assignments of updateFileRecord
UpdateFields(doc, body) ==
    [doc EXCEPT
       !.description = IF ~Falsy(body.description)
                       THEN Trim(body.description) ELSE @,
       !.fileDate = IF body.fileDate # UndefinedStr
                    THEN (IF body.fileDate = "" THEN NullDate ELSE CastDate(body.fileDate))
                    ELSE @,
       !.letterReferenceNumber =
            IF body.letterReferenceNumber # Undefined
            THEN (IF body.letterReferenceNumber = <<>>
                  THEN Null ELSE Trim(body.letterReferenceNumber))
            ELSE @]

\* the "Update file info" assignments of updateFileRecord
UpdateFileInfo(doc, file) ==
    [doc EXCEPT !.fileName = Trim(file.filename),
                !.originalName = Trim(file.originalname),
                !.filePath = file.path,
                !.fileSize = file.size,
                !.mimeType = file.mimetype]

\* Blob Storage after the "Delete old file" step of updateFileRecord, which
\* runs before record.save()
AfterDeleteOldFile(store, oldPath) == store \ {oldPath}

\* a not-found branch that leaves the uploaded file in place
RemoveUploadedKeepsFile(store, file) == store

\* the not-found branch of updateFileRecord: fs.unlinkSync(req.file.path)
RemoveUploaded(store, file) == store \ {file.path}

\* updateFileRecord from findById's answer up to `await record.save()`
UpdateApply(F) ==
    /\ req # Idle
    /\ req.op = "update" /\ req.pc = "found"
    /\ IF ~req.doc.found
       THEN IF req.file.present
            THEN \E unlinkOk \in F, cleanupOk \in F :
                   IF unlinkOk
                   THEN /\ blobs' = RemoveUploaded(blobs, req.file)
                        /\ Respond(404)
                   ELSE LET c == CatchCleanup(req.file, blobs, cleanupOk)
                        IN  /\ blobs' = c.blobs
                            /\ Respond(c.status)
            ELSE /\ Respond(404)
                 /\ UNCHANGED blobs
       ELSE LET doc1 == UpdateFields(req.doc, req.body)
            IN  IF req.file.present
                THEN \E unlinkOk \in F, cleanupOk \in F :
                       IF doc1.filePath # <<>> /\ doc1.filePath \in blobs /\ ~unlinkOk
                       THEN LET c == CatchCleanup(req.file, blobs, cleanupOk)
                            IN  /\ blobs' = c.blobs
                                /\ Respond(c.status)
                       ELSE /\ blobs' = AfterDeleteOldFile(blobs, doc1.filePath)
                            /\ req' = [req EXCEPT !.doc = UpdateFileInfo(doc1, req.file),
                                                  !.pc = "save"]
                            /\ UNCHANGED resp
                ELSE /\ req' = [req EXCEPT !.doc = doc1, !.pc = "save"]
                     /\ UNCHANGED <<blobs, resp>>
    /\ UNCHANGED <<records, nextId, nextUniq, arrived, deleted, before>>
    /\ UNCHANGED <<emitted, queryVars>>

\* a save that finds a row whatever the store holds
RowExistsAlways(store, id) == TRUE

\* save() of a loaded document updates the row with its _id; when no row has
\* it the save rejects (DocumentNotFoundError) and nothing is inserted
RowExists(store, id) == id \in DOMAIN store

\* The row after save() of a loaded document: the paths whose value differs
\* from the one that was read are written ($set), every other path of the row
\* stays as the store holds it
SaveDelta(row, loaded, doc) ==
    [f \in DOMAIN row |-> IF doc[f] # loaded[f] THEN doc[f] ELSE row[f]]

\* updateFileRecord from the save's outcome on: 200, or the catch block
UpdateSave(F, D, E) ==
    /\ req # Idle
    /\ req.op = "update" /\ req.pc = "save"
    /\ \E dbOk \in D, emitOk \in E, cleanupOk \in F :
         IF SaveSucceeds(req.doc, dbOk) /\ RowExists(records, req.id)
         THEN /\ records' = [records EXCEPT
                               ![req.id] = SaveDelta(@, req.loaded, PreSave(req.doc))]
              /\ IF emitOk
                 THEN /\ emitted' = Append(emitted, RecordEvent("file:updated", PreSave(req.doc)))
                      /\ Respond(200)
                      /\ UNCHANGED blobs
                 ELSE LET c == CatchCleanup(req.file, blobs, cleanupOk)
                      IN  /\ blobs' = c.blobs
                          /\ Respond(c.status)
                          /\ UNCHANGED emitted
         ELSE LET c == CatchCleanup(req.file, blobs, cleanupOk)
              IN  /\ blobs' = c.blobs
                  /\ Respond(c.status)
                  /\ UNCHANGED <<records, emitted>>
    /\ UNCHANGED <<nextId, nextUniq, arrived, deleted, before>>
    /\ UNCHANGED queryVars

\* The outcome of deleteFileRecord's "Delete physical file" step: the blob is
\* removed when it is there; a missing blob is skipped; unlinkSync throwing
\* leaves the try block for the catch block (500).
DeletePhysicalFile(doc, store, unlinkOk) ==
    IF doc.filePath # <<>> /\ doc.filePath \in store
    THEN IF unlinkOk THEN [blobs |-> store \ {doc.filePath}, thrown |-> FALSE]
                     ELSE [blobs |-> store, thrown |-> TRUE]
    ELSE [blobs |-> store, thrown |-> FALSE]

\* deleteFileRecord from findById's answer up to `await findByIdAndDelete`
DeleteApply(F) ==
    /\ req # Idle
    /\ req.op = "delete" /\ req.pc = "found"
    /\ IF ~req.doc.found
       THEN /\ Respond(404)
            /\ UNCHANGED blobs
       ELSE \E unlinkOk \in F :
              LET r == DeletePhysicalFile(req.doc, blobs, unlinkOk)
              IN  /\ blobs' = r.blobs
                  /\ IF r.thrown
                     THEN Respond(500)
                     ELSE /\ req' = [req EXCEPT !.pc = "remove"]
                          /\ UNCHANGED resp
    /\ UNCHANGED <<records, nextId, nextUniq, arrived, deleted, before>>
    /\ UNCHANGED <<emitted, queryVars>>

\* a delete that leaves the row in place
FindByIdAndDeleteKeepsRow(store, id) == store

\* FileRecord.findByIdAndDelete(id)
FindByIdAndDelete(store, id) == [i \in DOMAIN store \ {id} |-> store[i]]

\* deleteFileRecord from findByIdAndDelete's outcome on: the event and 200,
\* or the catch block
DeleteRemove(D, E) ==
    /\ req # Idle
    /\ req.op = "delete" /\ req.pc = "remove"
    /\ \E dbOk \in D, emitOk \in E :
         IF dbOk
         THEN /\ records' = FindByIdAndDelete(records, req.id)
              /\ IF emitOk
                 THEN /\ emitted' = Append(emitted, DeletedEvent(req.id))
                      /\ deleted' = deleted \cup {req.id}
                      /\ Respond(200)
                 ELSE /\ Respond(500)
                      /\ UNCHANGED <<deleted, emitted>>
         ELSE /\ Respond(500)
              /\ UNCHANGED <<records, deleted, emitted>>
    /\ UNCHANGED <<blobs, nextId, nextUniq, arrived, before>>
    /\ UNCHANGED queryVars

\* a downloadFile that does not test for the blob
DownloadStatusIgnoresBlob(doc, store) == IF ~doc.found THEN 404 ELSE 200

\* downloadFile from findById's answer on
DownloadStatus(doc, store) ==
    IF ~doc.found THEN 404
    ELSE IF doc.filePath = <<>> \/ doc.filePath \notin store THEN 404
    ELSE 200

\* res.download(record.filePath, record.originalName)
ResDownload(doc) == [path |-> doc.filePath, filename |-> doc.originalName]

DownloadSend ==
    /\ req # Idle
    /\ req.op = "download" /\ req.pc = "found"
    /\ resp' = IF DownloadStatus(req.doc, blobs) = 200
               THEN [op |-> req.op, id |-> req.id, status |-> 200, stage |-> req.pc,
                     uploaded |-> req.file.present, download |-> ResDownload(req.doc)]
               ELSE Response(req, req.id, DownloadStatus(req.doc, blobs))
    /\ req' = Idle
    /\ UNCHANGED <<records, blobs, nextId, nextUniq, arrived, deleted, before>>
    /\ UNCHANGED <<emitted, queryVars>>

----------------------------------------------------------------------------
(* The request lifecycle *)

Init ==
    /\ records = <<>>
    /\ blobs = {}
    /\ nextId = 0
    /\ nextUniq = 0
    /\ arrived = 0
    /\ req = Idle
    /\ resp = NoResp
    /\ deleted = {}
    /\ before = [records |-> <<>>, blobs |-> {}, deleted |-> {}]
    /\ emitted = <<>>
    /\ tz = 0
    /\ query = NoQuery
    /\ pages = <<>>
    /\ exported = NoExport
    /\ parked = Idle
    /\ colleges = <<>>

Step(F, D, E) ==
    \/ Arrive
    \/ MulterUpload
    \/ FindById
    \/ CreateHandler(F)
    \/ CreateSave(F, D, E)
    \/ UpdateApply(F)
    \/ UpdateSave(F, D, E)
    \/ DeleteApply(F)
    \/ DeleteRemove(D, E)
    \/ DownloadSend

\* file-system calls and database writes may fail; io.emit does not throw
Next == Step(BOOLEAN, BOOLEAN, {TRUE})
Spec == Init /\ [][Next]_vars

\* only file-system calls may fail
NextFsFaults == Step(BOOLEAN, {TRUE}, {TRUE})
SpecFsFaults == Init /\ [][NextFsFaults]_vars

\* no call fails: a save rejects only on validation
NextReliable == Step({TRUE}, {TRUE}, {TRUE})
SpecReliable == Init /\ [][NextReliable]_vars

\* only io.emit may throw
NextNotifier == Step({TRUE}, {TRUE}, BOOLEAN)
SpecNotifier == Init /\ [][NextNotifier]_vars

----------------------------------------------------------------------------
(* Lifecycle properties *)

Answered == req = Idle /\ resp.op # "none"
Success == Answered /\ resp.status \in {200, 201}

Referenced(store) == {store[i].filePath : i \in DOMAIN store}
NoDanglingRecord == \A i \in DOMAIN records : records[i].filePath \in blobs
NoOrphanBlob == blobs \subseteq Referenced(records)

\* C1: after any request that returned success, every stored record's filePath
\* names a blob in Blob Storage and every blob is referenced by a stored record
C1_StoreAndBlobsAgree == Success => (NoDanglingRecord /\ NoOrphanBlob)

\* the record an Update with a replacement file addresses pointed at an
\* existing blob when the Update arrived
ReplacingUpdate(r) ==
    /\ r.op = "update"
    /\ r.id \in DOMAIN before.records
    /\ before.records[r.id].filePath \in before.blobs

\* C2: at every step of an Update that carries a replacement file, and after it
\* has ended (whatever its outcome), the blob named by the stored record's
\* filePath exists
C2_UpdateNeverDangles ==
    /\ (req # Idle /\ ReplacingUpdate(req) /\ req.upload.present /\ req.id \in DOMAIN records)
          => records[req.id].filePath \in blobs
    /\ (req = Idle /\ ReplacingUpdate(resp) /\ resp.id \in DOMAIN records)
          => records[resp.id].filePath \in blobs

\* C3: when Create answers with its error response (the save rejected after
\* the blob was written, or any other throw in the handler), the uploaded blob
\* is gone and no record was created: Record Store and Blob Storage are as
\* they were when the request arrived
C3_CreateFailureRollsBack ==
    (Answered /\ resp.op = "create" /\ resp.status = 500)
        => (records = before.records /\ blobs = before.blobs)

\* a Create built its document (nextId advanced), the save rejected, and the
\* blob written for it (nextUniq advanced) has been removed again
C3_Witness ==
    /\ Answered /\ resp.op = "create" /\ resp.status = 500
    /\ nextId = 1 /\ nextUniq = 1
    /\ records = <<>> /\ blobs = {}

LaterRequestOnDeletedId ==
    Answered /\ resp.op \in {"delete", "update", "download"} /\ resp.id \in before.deleted

\* C4 as claimed: once Delete(id) has answered 200, every later Delete(id),
\* Update(id) and Download(id) is answered 404
C4_DeleteIsTerminal == LaterRequestOnDeletedId => resp.status = 404

\* C4 as amended: once Delete(id) has answered 200, every later Delete(id),
\* Update(id) and Download(id) is answered 404, except an Update whose upload
\* the upload middleware rejects (400 before the handler runs) and an Update
\* whose stored upload cannot be unlinked in the not-found branch (the catch
\* block: 500, or no response when the cleanup throws too); the row never
\* comes back
C4_DeleteIsTerminalAmended ==
    LaterRequestOnDeletedId =>
        /\ resp.id \notin DOMAIN records
        /\ \/ resp.status = 404
           \/ resp.op = "update" /\ resp.stage = "multer" /\ resp.status = 400
           \/ resp.op = "update" /\ resp.stage = "found" /\ resp.uploaded
                /\ resp.status \in {500, Aborted}

\* an Update with an accepted replacement file on a deleted id is answered 404
C4_Witness ==
    /\ LaterRequestOnDeletedId
    /\ resp.op = "update" /\ resp.uploaded /\ resp.status = 404

\* C5: a Delete of a record that exists answers 200 and removes the row, also
\* when removing the blob fails
C5_DeleteAlwaysRemovesRow ==
    (Answered /\ resp.op = "delete" /\ resp.id \in DOMAIN before.records)
        => (resp.status = 200 /\ resp.id \notin DOMAIN records)

----------------------------------------------------------------------------
(* Query & export engine: getFileRecords and exportToExcel                 *)

MsPerMinute == 60000

\* Date.prototype.setHours(23, 59, 59, 999): the last millisecond of the day
\* that contains instant t on the server's local clock
SetHoursEndOfDay(t, offset) ==
    LET local == t + offset * MsPerMinute
        localMidnight == local - (local % MsPerDay)
    IN  localMidnight + (MsPerDay - 1) - offset * MsPerMinute

\* RegExp(search, 'i').test(text) for patterns of literal characters and "."
CharMatches(p, c) == p = "." \/ ToLowerChar(p) = ToLowerChar(c)
RegexTest(pattern, text) ==
    \E i \in 0..(Len(text) - Len(pattern)) :
        \A j \in 1..Len(pattern) : CharMatches(pattern[j], text[i + j])

NoBound == [set |-> FALSE]
Bound(ms) == [set |-> TRUE, ms |-> ms]
NoClause == [set |-> FALSE]

\* query.uploadDateTime.$lte of both handlers: new Date(endDate), moved to
\* the end of its day by setHours on the server's local clock
EndOfDayBound(endDate, offset) == Bound(SetHoursEndOfDay(ParseDate(endDate), offset))

\* "Build query" of getFileRecords
ListQuery(q, offset) ==
    [description |-> IF ~Falsy(q.search)
                     THEN [set |-> TRUE, regex |-> q.search] ELSE NoClause,
     fileType |-> IF q.fileType \notin {UndefinedStr, ""} /\ q.fileType # "All"
                  THEN [set |-> TRUE, eq |-> q.fileType] ELSE NoClause,
     gte |-> IF q.startDate \notin {UndefinedStr, ""}
             THEN Bound(ParseDate(q.startDate)) ELSE NoBound,
     lte |-> IF q.endDate \notin {UndefinedStr, ""}
             THEN EndOfDayBound(q.endDate, offset) ELSE NoBound]

\* an Export query without the end-of-day adjustment
ExportQueryNoEndOfDay(q, offset) ==
    [ListQuery(q, offset) EXCEPT
        !.lte = IF q.endDate \notin {UndefinedStr, ""}
                THEN Bound(ParseDate(q.endDate)) ELSE NoBound]

\* "Build query (same as getFileRecords)" of exportToExcel
ExportQuery(q, offset) ==
    [description |-> IF ~Falsy(q.search)
                     THEN [set |-> TRUE, regex |-> q.search] ELSE NoClause,
     fileType |-> IF q.fileType \notin {UndefinedStr, ""} /\ q.fileType # "All"
                  THEN [set |-> TRUE, eq |-> q.fileType] ELSE NoClause,
     gte |-> IF q.startDate \notin {UndefinedStr, ""}
             THEN Bound(ParseDate(q.startDate)) ELSE NoBound,
     lte |-> IF q.endDate \notin {UndefinedStr, ""}
             THEN EndOfDayBound(q.endDate, offset) ELSE NoBound]

\* the uploadDateTime clause of a query, on an instant
DateInRange(mq, t) ==
    /\ (mq.gte.set => t >= mq.gte.ms)
    /\ (mq.lte.set => t <= mq.lte.ms)

\* whether a document satisfies a query
Matches(mq, doc) ==
    /\ (mq.description.set => RegexTest(mq.description.regex, doc.description))
    /\ (mq.fileType.set => doc.fileType = mq.fileType.eq)
    /\ DateInRange(mq, doc.uploadDateTime)

Matching(store, mq) == {i \in DOMAIN store : Matches(mq, store[i])}

\* FileRecord.countDocuments(query)
CountDocuments(store, mq) == Cardinality(Matching(store, mq))

\* the sort field and direction of getFileRecords: sortBy defaults to
\* 'uploadDateTime' and must be in validSortFields; 1 only for 'asc'
Default(v, d) == IF v = UndefinedStr THEN d ELSE v
ValidSortFields == {"uploadDateTime", "description", "fileType", "fileDate"}
ListSort(q) ==
    [field |-> IF Default(q.sortBy, "uploadDateTime") \in ValidSortFields
               THEN Default(q.sortBy, "uploadDateTime") ELSE "uploadDateTime",
     dir |-> IF Default(q.sortOrder, "desc") = "asc" THEN 1 ELSE -1]

\* the sort field and direction of exportToExcel: sortOptions[sortBy]
ExportSort(q) ==
    [field |-> Default(q.sortBy, "uploadDateTime"),
     dir |-> IF Default(q.sortOrder, "desc") = "asc" THEN 1 ELSE -1]

----------------------------------------------------------------------------
(* The store's sort: BSON comparison order of the sort key, and any order  *)
(* among documents whose keys are equal                                    *)

CharOrder ==
    <<" ", ".", "0", "1", "2", "3", "4", "5", "6", "7", "8", "9",
      "A", "B", "C", "D", "E", "F", "G", "H", "I", "J", "K", "L", "M",
      "N", "O", "P", "Q", "R", "S", "T", "U", "V", "W", "X", "Y", "Z", "_",
      "a", "b", "c", "d", "e", "f", "g", "h", "i", "j", "k", "l", "m",
      "n", "o", "p", "q", "r", "s", "t", "u", "v", "w", "x", "y", "z">>
CharCode(c) == CHOOSE k \in 1..Len(CharOrder) : CharOrder[k] = c

RECURSIVE LexLess(_, _)
LexLess(a, b) ==
    IF b = <<>> THEN FALSE
    ELSE IF a = <<>> THEN TRUE
    ELSE IF Head(a) = Head(b) THEN LexLess(Tail(a), Tail(b))
    ELSE CharCode(Head(a)) < CharCode(Head(b))

TypeRank(t) ==
    CASE t = "DOCX" -> 1 [] t = "Image" -> 2 [] t = "Other" -> 3
      [] t = "PDF" -> 4 [] t = "XLSX" -> 5

\* key(a) < key(b) for the sort field; a field no document has compares equal
KeyLess(field, a, b) ==
    CASE field = "uploadDateTime" -> a.uploadDateTime < b.uploadDateTime
      [] field = "fileSize" -> a.fileSize < b.fileSize
      [] field = "description" -> LexLess(a.description, b.description)
      [] field = "originalName" -> LexLess(a.originalName, b.originalName)
      [] field = "fileType" -> TypeRank(a.fileType) < TypeRank(b.fileType)
      [] field = "fileDate" ->
            /\ b.fileDate # NullDate
            /\ (a.fileDate = NullDate \/ a.fileDate.ms < b.fileDate.ms)
      [] OTHER -> FALSE

Perms(S) ==
    {f \in [1..Cardinality(S) -> S] : \A i, j \in 1..Cardinality(S) : i # j => f[i] # f[j]}

\* find(query).sort(sortOptions): the orders of the matching ids the store
\* may return; documents with equal sort keys come in any order
SortedOrders(store, mq, sort) ==
    {ord \in Perms(Matching(store, mq)) :
        \A i, j \in 1..Len(ord) :
            i < j => IF sort.dir = 1
                     THEN ~KeyLess(sort.field, store[ord[j]], store[ord[i]])
                     ELSE ~KeyLess(sort.field, store[ord[i]], store[ord[j]])}

Abs(n) == IF n < 0 THEN -n ELSE n

\* .skip(skip).limit(limit) on a cursor's order, for skip >= 0; the driver
\* sends a negative limit as its absolute value
SkipLimit(ord, skip, limit) ==
    SubSeq(ord, skip + 1, Min(Len(ord), skip + Abs(limit)))

\* parseInt(value, 10) || fallback for the query strings of the model:
\* parseInt reads an optional sign and the leading digits, and gives NaN
\* (falsy, like 0) for anything else
NumericStrings == {"0", "1", "2", "3", "4", "10", "-1", "-2", "2x"}
NumberOf(v) ==
    CASE v = "0" -> 0 [] v = "1" -> 1 [] v = "2" -> 2 [] v = "3" -> 3 [] v = "4" -> 4
      [] v = "10" -> 10 [] v = "-1" -> -1 [] v = "-2" -> -2 [] v = "2x" -> 2
ParseIntOr(v, fallback) ==
    IF v \in NumericStrings /\ NumberOf(v) # 0 THEN NumberOf(v) ELSE fallback
PageString(n) == <<"1", "2", "3", "4">>[n]

\* a Math.ceil that rounds down
CeilDivRoundsDown(a, b) == a \div b

\* Math.ceil(a / b) for a >= 0 and b # 0
CeilDiv(a, b) == IF b > 0 THEN (a + b - 1) \div b ELSE -(a \div (-b))

\* "Pagination" of getFileRecords
ListPaging(page, limit) ==
    [pageNum |-> ParseIntOr(page, 1),
     limitNum |-> ParseIntOr(limit, 10),
     skip |-> (ParseIntOr(page, 1) - 1) * ParseIntOr(limit, 10)]

\* the response of getFileRecords for one order the store returned
ListResponse(store, q, offset, page, ord) ==
    LET mq == ListQuery(q, offset)
        pageNum == ListPaging(page, Default(q.limit, "10")).pageNum
        limitNum == ListPaging(page, Default(q.limit, "10")).limitNum
        skip == ListPaging(page, Default(q.limit, "10")).skip
        totalCount == CountDocuments(store, mq)
        totalPages == CeilDiv(totalCount, limitNum)
    IN  [status |-> 200,
         records |-> SkipLimit(ord, skip, limitNum),
         pagination |-> [currentPage |-> pageNum,
                         totalPages |-> totalPages,
                         totalRecords |-> totalCount,
                         recordsPerPage |-> limitNum,
                         hasNextPage |-> pageNum < totalPages,
                         hasPrevPage |-> pageNum > 1]]

\* GET /files: the client asks for the next page of its listing
GetFileRecords ==
    /\ query # NoQuery
    /\ IF pages = <<>> THEN TRUE ELSE Len(pages) < pages[1].pagination.totalPages
    /\ \E ord \in SortedOrders(records, ListQuery(query, tz), ListSort(query)) :
         pages' = Append(pages,
                         ListResponse(records, query, tz, PageString(Len(pages) + 1), ord))
    /\ UNCHANGED <<lifecycleVars, tz, query, exported, parked, colleges>>

\* String(n) for n >= 0, and .padStart(3, '0')
DigitChar(d) == <<"0", "1", "2", "3", "4", "5", "6", "7", "8", "9">>[d + 1]
RECURSIVE NumberToString(_)
NumberToString(n) ==
    IF n < 10 THEN <<DigitChar(n)>>
    ELSE NumberToString(n \div 10) \o <<DigitChar(n % 10)>>
\* a sequence number that is not padded
PadStart3NoPadding(str) == str

PadStart3(str) == [i \in 1..(3 - Len(str)) |-> "0"] \o str

Dash == <<"-">>    \* the placeholder written for an empty cell

\* "Add data rows" of exportToExcel: the worksheet row of the record at
\* position k of the sorted result
SheetRow(doc, k) ==
    [id |-> k,
     description |-> doc.description,
     fileDate |-> IF doc.fileDate = NullDate
                  THEN Dash ELSE <<"day", doc.fileDate.ms \div MsPerDay>>,
     letterRef |-> IF doc.letterReferenceNumber \in {Null, <<>>}
                   THEN Dash ELSE doc.letterReferenceNumber,
     fileName |-> doc.originalName,
     fileType |-> doc.fileType,
     uploadDateTime |-> <<"second", doc.uploadDateTime \div 1000>>]

SheetRows(store, ord) == [k \in 1..Len(ord) |-> SheetRow(store[ord[k]], k)]

\* an archive loop that does not test for the blob
FileInArchiveAlways(doc, store) == TRUE

\* record.filePath && fs.existsSync(record.filePath)
FileInArchive(doc, store) == doc.filePath # <<>> /\ doc.filePath \in store

\* the archive entry of the record at position k of the sorted result
ArchiveEntry(doc, k) ==
    LET ext == Extname(doc.originalName)
        nameWithoutExt == Basename(doc.originalName, ext)
        uniqueFilename == PadStart3(NumberToString(k)) \o <<"_">> \o nameWithoutExt \o ext
    IN  [name |-> <<"files/">> \o uniqueFilename, path |-> doc.filePath]

\* "Add actual files to archive": the entries in loop order
RECURSIVE ArchiveFiles(_, _, _, _)
ArchiveFiles(store, ord, files, k) ==
    IF k > Len(ord) THEN <<>>
    ELSE (IF FileInArchive(store[ord[k]], files)
          THEN <<ArchiveEntry(store[ord[k]], k)>> ELSE <<>>)
         \o ArchiveFiles(store, ord, files, k + 1)

\* GET /files/export: the sorted matching records, the worksheet built from
\* them, and the zip archive piped to the response (records.xlsx, then the
\* files that are on disk)
ExportToExcel ==
    /\ query # NoQuery
    /\ exported = NoExport
    /\ \E ord \in SortedOrders(records, ExportQuery(query, tz), ExportSort(query)) :
         exported' = [status |-> 200,
                      records |-> ord,
                      rows |-> SheetRows(records, ord),
                      archive |-> [xlsx |-> "records.xlsx",
                                   files |-> ArchiveFiles(records, ord, blobs, 1)]]
    /\ UNCHANGED <<lifecycleVars, tz, query, pages, parked, colleges>>

----------------------------------------------------------------------------
(* A listing / export session over a populated store *)

\* req.file as the upload middleware builds it for the n-th stored name
StoredFile(n, originalname, mimetype) ==
    [present |-> TRUE,
     filename |-> StorageFilename(n, originalname),
     originalname |-> originalname,
     path |-> UploadPath(StorageFilename(n, originalname)),
     size |-> 1,
     mimetype |-> mimetype]

\* the document a successful Create stores
CreatedDoc(id, description, originalname, at) ==
    PreSave(NewFileRecord(id,
                          [description |-> description, fileDate |-> UndefinedStr,
                           letterReferenceNumber |-> Undefined],
                          StoredFile(id, originalname, "application/pdf"),
                          at))

\* uploads around the boundaries of 2024-01-15 (UTC); 1, 2 and 4 share a file
\* type, 1 and 4 a description
SampleDocs ==
    <<CreatedDoc(1, <<"a">>, <<"r", ".", "P", "D", "F">>, 14 * MsPerDay - 1),
      CreatedDoc(2, <<"A", "b">>, <<"r", ".", "p", "d", "f">>, 14 * MsPerDay),
      CreatedDoc(3, <<"b">>, <<"n", ".", "t", "x", "t">>, 15 * MsPerDay - 1),
      CreatedDoc(4, <<"a">>, <<"s", ".", "p", "d", "f">>, 15 * MsPerDay)>>

MaxStored == 3

SampleStores ==
    {[i \in S |-> SampleDocs[i]] :
        S \in {T \in SUBSET (1..Len(SampleDocs)) : Cardinality(T) <= MaxStored}}

TzOffsets == {-300, 0, 330}

Queries ==
    [search : {Undefined, <<"a">>},
     fileType : {"", "All", "PDF"},
     startDate : {"", "2024-01-15"},
     endDate : {"", "2024-01-15"},
     sortBy : {UndefinedStr, "fileType", "fileSize"},
     sortOrder : {"asc", "desc", "up"},
     limit : {"1", "2"}]

InitQuery ==
    /\ records \in SampleStores
    /\ blobs = Referenced(records)
    /\ nextId = Len(SampleDocs)
    /\ nextUniq = Len(SampleDocs)
    /\ arrived = 0
    /\ req = Idle
    /\ resp = NoResp
    /\ deleted = {}
    /\ before = [records |-> <<>>, blobs |-> {}, deleted |-> {}]
    /\ emitted = <<>>
    /\ tz \in TzOffsets
    /\ query \in Queries
    /\ pages = <<>>
    /\ exported = NoExport
    /\ parked = Idle
    /\ colleges = <<>>

NextQuery ==
    \/ GetFileRecords
    \/ ExportToExcel

SpecQuery == InitQuery /\ [][NextQuery]_vars

----------------------------------------------------------------------------
(* Query properties *)

RECURSIVE ConcatPages(_)
ConcatPages(ps) == IF ps = <<>> THEN <<>> ELSE Head(ps).records \o ConcatPages(Tail(ps))

Listed == pages # <<>>
Exported == exported # NoExport
AllPagesFetched == Listed /\ Len(pages) >= pages[1].pagination.totalPages

\* C6: for every filter combination the totalRecords of List equals the number
\* of records Export processes, and the total agrees with the pages: every
\* listed record satisfies the counted predicate and the pages 1..totalPages
\* together hold totalRecords records
C6_ListTotalMatchesExport ==
    /\ (Listed /\ Exported) =>
           \A k \in 1..Len(pages) :
               pages[k].pagination.totalRecords = Len(exported.records)
    /\ Listed =>
           \A k \in 1..Len(pages) :
               /\ pages[k].pagination.totalRecords
                     = Cardinality(Matching(records, ListQuery(query, tz)))
               /\ \A n \in 1..Len(pages[k].records) :
                      Matches(ListQuery(query, tz), records[pages[k].records[n]])
    /\ AllPagesFetched =>
           Len(ConcatPages(pages)) = pages[1].pagination.totalRecords

\* all four filters are set, they let one of three stored records through, and
\* List and Export have both answered
C6_Witness ==
    /\ Listed /\ Exported
    /\ query.search # Undefined /\ query.fileType = "PDF"
    /\ query.startDate # "" /\ query.endDate # ""
    /\ Cardinality(DOMAIN records) = 3
    /\ pages[1].pagination.totalRecords = 1
    /\ Len(exported.records) = 1

\* C7: with the store unchanged, the pages 1..totalPages of List, concatenated,
\* are the record sequence of Export for the same filter and sort (stated for
\* the sorts List honours: a sortBy of its allow-list, or none)
C7_PagesConcatIsExport ==
    (AllPagesFetched /\ Exported /\ ListSort(query) = ExportSort(query))
        => ConcatPages(pages) = exported.records

\* C8: Export and List sort by the same field in the same direction, whatever
\* sortBy and sortOrder the caller passes
C8_SameSortOrder == query # NoQuery => ListSort(query) = ExportSort(query)

\* the instant at which a clock running z minutes ahead of UTC starts / ends
\* the calendar day named by a date string
DayStart(d, z) == ParseDate(d) - z * MsPerMinute
DayEnd(d, z) == DayStart(d, z) + (MsPerDay - 1)

WholeDayBoundaries(mq, q, z) ==
    /\ q.endDate # "" =>
          /\ DateInRange(mq, DayEnd(q.endDate, z))
          /\ ~DateInRange(mq, DayEnd(q.endDate, z) + 1)
    /\ q.startDate # "" =>
          /\ DateInRange(mq, DayStart(q.startDate, z))
          /\ ~DateInRange(mq, DayStart(q.startDate, z) - 1)

\* C9: the date range is inclusive at whole-day boundaries whatever the
\* server's time zone: reading the calendar day either in UTC or on the
\* server's clock, an upload in the last millisecond of endDate is in range
\* and one a millisecond later is not; an upload in the first millisecond of
\* startDate is in range and one a millisecond earlier is not
C9_WholeDayBoundaries ==
    query # NoQuery =>
        \E z \in {0, tz} :
            /\ WholeDayBoundaries(ListQuery(query, tz), query, z)
            /\ WholeDayBoundaries(ExportQuery(query, tz), query, z)

----------------------------------------------------------------------------
(* Uploads of differently named files: one Create per name *)

TypeBases == {<<>>, <<"r">>, <<"a", ".", "b">>, <<"m", " ", "y">>}
TypeExts ==
    {<<>>, <<".">>,
     <<".", "p", "d", "f">>, <<".", "P", "D", "F">>, <<".", "P", "d", "f">>,
     <<".", "d", "o", "c">>, <<".", "d", "o", "c", "x">>, <<".", "D", "O", "C", "X">>,
     <<".", "x", "l", "s">>, <<".", "x", "l", "s", "x">>, <<".", "X", "l", "s">>,
     <<".", "j", "p", "g">>, <<".", "j", "p", "e", "g">>, <<".", "J", "P", "G">>,
     <<".", "p", "n", "g">>, <<".", "g", "i", "f">>, <<".", "b", "m", "p">>,
     <<".", "w", "e", "b", "p">>, <<".", "W", "e", "b", "P">>,
     <<".", "t", "x", "t">>, <<".", "p", "d", "f", "x">>, <<".", "p", "d">>,
     <<".", "p", "d", "f", " ">>,
     <<"p", "d", "f">>, <<".", "g", "z">>}
TypeNames == {b \o e : b \in TypeBases, e \in TypeExts}

InitType ==
    /\ records = <<>>
    /\ blobs = {}
    /\ nextId = 0
    /\ nextUniq = 0
    /\ arrived = 1
    /\ \E n \in TypeNames, m \in {"application/pdf", "image/png"} :
          req = Request("create", UnknownId,
                        [description |-> <<"a">>, fileDate |-> UndefinedStr,
                         letterReferenceNumber |-> Undefined],
                        [present |-> TRUE, originalname |-> n, mimetype |-> m, size |-> 1])
    /\ resp = NoResp
    /\ deleted = {}
    /\ before = [records |-> <<>>, blobs |-> {}, deleted |-> {}]
    /\ emitted = <<>>
    /\ tz = 0
    /\ query = NoQuery
    /\ pages = <<>>
    /\ exported = NoExport
    /\ parked = Idle
    /\ colleges = <<>>

NextType ==
    \/ MulterUpload
    \/ CreateHandler({TRUE})
    \/ CreateSave({TRUE}, {TRUE}, {TRUE})

SpecType == InitType /\ [][NextType]_vars

\* the last Len(e) characters of name, lower-cased, are e, and more precede them
EndsWithIgnoringCase(name, e) ==
    /\ Len(name) > Len(e)
    /\ \A k \in 1..Len(e) : ToLowerChar(name[Len(name) - Len(e) + k]) = e[k]

HasOneOf(name, exts) == \E e \in exts : EndsWithIgnoringCase(name, e)

\* the extension table of the claim, on a file name
TypeByExtension(name) ==
    IF HasOneOf(name, {<<".", "p", "d", "f">>}) THEN "PDF"
    ELSE IF HasOneOf(name, {<<".", "d", "o", "c">>, <<".", "d", "o", "c", "x">>}) THEN "DOCX"
    ELSE IF HasOneOf(name, {<<".", "x", "l", "s">>, <<".", "x", "l", "s", "x">>}) THEN "XLSX"
    ELSE IF HasOneOf(name, {<<".", "j", "p", "g">>, <<".", "j", "p", "e", "g">>,
                            <<".", "p", "n", "g">>, <<".", "g", "i", "f">>,
                            <<".", "b", "m", "p">>, <<".", "w", "e", "b", "p">>}) THEN "Image"
    ELSE "Other"

\* C10: the fileType stored for an upload is the type the extension table gives
\* for the extension of the uploaded file's name (the record's originalName),
\* compared case-insensitively, and Other for any other or no extension
C10_TypeFromExtension ==
    \A i \in DOMAIN records :
        records[i].fileType = TypeByExtension(records[i].originalName)

\* an upload whose extension is written .Pdf is stored as PDF
C10_Witness ==
    \E i \in DOMAIN records :
        /\ Extname(records[i].originalName) = <<".", "P", "d", "f">>
        /\ records[i].fileType = "PDF"

----------------------------------------------------------------------------
(* Export over a store some of whose blobs were removed out of band *)

ExportQueries ==
    {q \in Queries : /\ q.search = Undefined /\ q.startDate = "" /\ q.endDate = ""
                     /\ q.sortOrder = "asc" /\ q.limit = "1"}

InitExport ==
    /\ records \in SampleStores
    /\ blobs \in SUBSET Referenced(records)
    /\ nextId = Len(SampleDocs)
    /\ nextUniq = Len(SampleDocs)
    /\ arrived = 0
    /\ req = Idle
    /\ resp = NoResp
    /\ deleted = {}
    /\ before = [records |-> <<>>, blobs |-> {}, deleted |-> {}]
    /\ emitted = <<>>
    /\ tz = 0
    /\ query \in ExportQueries
    /\ pages = <<>>
    /\ exported = NoExport
    /\ parked = Idle
    /\ colleges = <<>>

NextExport == ExportToExcel

SpecExport == InitExport /\ [][NextExport]_vars

MatchingExport == Matching(records, ExportQuery(query, tz))
ArchivedPaths == {exported.archive.files[n].path : n \in 1..Len(exported.archive.files)}

\* C11: Export succeeds whether or not blobs are missing: the spreadsheet has
\* one row for every matching record (in the sorted order, missing blob or
\* not), and the archive has an entry for a matching record exactly when its
\* blob exists
C11_ExportSkipsMissingBlobs ==
    Exported =>
        /\ exported.status = 200
        /\ Len(exported.rows) = Cardinality(MatchingExport)
        /\ {exported.records[k] : k \in 1..Len(exported.records)} = MatchingExport
        /\ \A k \in 1..Len(exported.rows) :
               /\ exported.rows[k].fileName = records[exported.records[k]].originalName
               /\ exported.rows[k].description = records[exported.records[k]].description
        /\ \A i \in MatchingExport : (records[i].filePath \in ArchivedPaths)
                                          <=> (records[i].filePath \in blobs)
        /\ Len(exported.archive.files) = Cardinality(ArchivedPaths)

\* three records match, the blob of one of them is gone: three rows, two entries
C11_Witness ==
    /\ Exported
    /\ Cardinality(MatchingExport) = 3
    /\ Cardinality({i \in MatchingExport : records[i].filePath \notin blobs}) = 1
    /\ Len(exported.rows) = 3
    /\ Len(exported.archive.files) = 2

----------------------------------------------------------------------------
(* getStats *)

\* a $sort stage that leaves the groups in any order
SortedByCountAnyOrder(groups) == TRUE

\* { $sort: { count: -1 } }: no group precedes one with a larger count
SortedByCount(groups) ==
    \A i, j \in 1..Len(groups) : i < j => groups[i].count >= groups[j].count

RECURSIVE SumOfSizes(_, _)
SumOfSizes(store, ids) ==
    IF ids = {} THEN 0
    ELSE LET i == CHOOSE x \in ids : TRUE
         IN  store[i].fileSize + SumOfSizes(store, ids \ {i})

\* the $group stage: one group per fileType that occurs
GroupOf(store, type) ==
    LET ids == {i \in DOMAIN store : store[i].fileType = type}
    IN  [_id |-> type, count |-> Cardinality(ids), totalSize |-> SumOfSizes(store, ids)]
Groups(store) == {GroupOf(store, store[i].fileType) : i \in DOMAIN store}

\* FileRecord.aggregate([{ $group }, { $sort }]): the results the store may
\* return; groups with equal counts come in any order
Aggregate(store) == {g \in Perms(Groups(store)) : SortedByCount(g)}

\* stats.reduce((acc, s) => acc + s.totalSize, 0)
RECURSIVE ReduceTotalSize(_)
ReduceTotalSize(stats) ==
    IF stats = <<>> THEN 0 ELSE Head(stats).totalSize + ReduceTotalSize(Tail(stats))

StatsRequest ==
    [op |-> "stats", id |-> UnknownId, body |-> NoBody, upload |-> NoFile,
     file |-> NoFile, doc |-> NoDoc, loaded |-> NoDoc, pc |-> "aggregate", stats |-> <<>>]

\* getStats up to `await FileRecord.countDocuments()`
StatsAggregate ==
    /\ req # Idle
    /\ req.op = "stats" /\ req.pc = "aggregate"
    /\ \E g \in Aggregate(records) : req' = [req EXCEPT !.stats = g, !.pc = "count"]
    /\ UNCHANGED <<records, blobs, nextId, nextUniq, arrived, resp, deleted, before, emitted>>
    /\ UNCHANGED queryVars

\* getStats from countDocuments' answer on
StatsCount ==
    /\ req # Idle
    /\ req.op = "stats" /\ req.pc = "count"
    /\ resp' = [op |-> req.op, id |-> req.id, status |-> 200, stage |-> req.pc,
                uploaded |-> FALSE,
                data |-> [totalRecords |-> Cardinality(DOMAIN records),
                          totalSize |-> ReduceTotalSize(req.stats),
                          byFileType |-> req.stats]]
    /\ req' = Idle
    /\ UNCHANGED <<records, blobs, nextId, nextUniq, arrived, deleted, before, emitted>>
    /\ UNCHANGED queryVars

----------------------------------------------------------------------------
(* The gate of the /files router: protect                                  *)

\* the users collection: an active account and a deactivated one
Users == [u1 |-> [isActive |-> TRUE], u2 |-> [isActive |-> FALSE]]

\* what a request presents: no token (no Authorization header, no cookie), a
\* token jwt.verify rejects (JsonWebTokenError / TokenExpiredError), or a
\* token that verifies and decodes to an id
NoToken == [kind |-> "none"]
BadToken(error) == [kind |-> "rejected", error |-> error]
TokenOf(id) == [kind |-> "verified", id |-> id]
Credentials ==
    {NoToken, BadToken("JsonWebTokenError"), BadToken("TokenExpiredError"),
     TokenOf("u1"), TokenOf("u2"), TokenOf("u9")}

Passes == 0    \* protect calls next()

\* protect: the status it answers with, or Passes
ProtectStatus(auth) ==
    IF auth.kind = "none" THEN 401
    ELSE IF auth.kind = "rejected" THEN 401
    ELSE IF auth.id \notin DOMAIN Users THEN 401
    ELSE IF ~Users[auth.id].isActive THEN 401
    ELSE Passes

\* a request as it enters the router, before protect has run
GatedRequest(r, auth) ==
    [op |-> r.op, id |-> r.id, body |-> r.body, upload |-> r.upload,
     file |-> r.file, doc |-> r.doc, loaded |-> NoDoc,
     pc |-> "protect", route |-> r.pc, auth |-> auth,
     stats |-> <<>>]

ReadOps == {"list", "export"}

\* router.use(protect): answer 401, or hand the request to its route
Protect ==
    /\ req # Idle
    /\ req.pc = "protect"
    /\ IF ProtectStatus(req.auth) = Passes
       THEN /\ req' = [req EXCEPT !.pc = req.route]
            /\ UNCHANGED resp
       ELSE /\ resp' = [op |-> req.op, id |-> req.id, status |-> ProtectStatus(req.auth),
                        stage |-> "protect", uploaded |-> FALSE, auth |-> req.auth]
            /\ req' = Idle
    /\ UNCHANGED <<records, blobs, nextId, nextUniq, arrived, deleted, before, emitted>>
    /\ UNCHANGED queryVars

\* the routes of getFileRecords and exportToExcel answer; what they return is
\* the matter of GetFileRecords and ExportToExcel
ReadRoute ==
    /\ req # Idle
    /\ req.op \in ReadOps /\ req.pc = "handler"
    /\ Respond(200)
    /\ UNCHANGED <<records, blobs, nextId, nextUniq, arrived, deleted, before, emitted>>
    /\ UNCHANGED queryVars

AuthStore == [i \in {1, 2} |-> SampleDocs[i]]

AuthBody == [description |-> <<"a">>, fileDate |-> UndefinedStr,
             letterReferenceNumber |-> Undefined]
AuthUpload == [present |-> TRUE, originalname |-> <<"r", ".", "p", "d", "f">>,
               mimetype |-> "application/pdf", size |-> 1]

AuthRequests ==
    {Request("create", UnknownId, AuthBody, u) : u \in {AuthUpload, NoFile}}
    \cup {Request("update", i, AuthBody, u) : i \in {1, 2}, u \in {AuthUpload, NoFile}}
    \cup {Request("delete", i, NoBody, NoFile) : i \in {1, 2}}
    \cup {Request("download", i, NoBody, NoFile) : i \in {1, 2}}
    \cup {[Request(op, UnknownId, NoBody, NoFile) EXCEPT !.pc = "handler"] : op \in ReadOps}
    \cup {StatsRequest}

InitAuth ==
    /\ records = AuthStore
    /\ blobs = Referenced(AuthStore)
    /\ nextId = Len(SampleDocs)
    /\ nextUniq = Len(SampleDocs)
    /\ arrived = 1
    /\ \E r \in AuthRequests, a \in Credentials : req = GatedRequest(r, a)
    /\ resp = NoResp
    /\ deleted = {}
    /\ before = [records |-> AuthStore, blobs |-> Referenced(AuthStore), deleted |-> {}]
    /\ emitted = <<>>
    /\ tz = 0
    /\ query = NoQuery
    /\ pages = <<>>
    /\ exported = NoExport
    /\ parked = Idle
    /\ colleges = <<>>

NextAuth ==
    \/ Protect
    \/ ReadRoute
    \/ StatsAggregate
    \/ StatsCount
    \/ MulterUpload
    \/ FindById
    \/ CreateHandler({TRUE})
    \/ CreateSave({TRUE}, {TRUE}, {TRUE})
    \/ UpdateApply({TRUE})
    \/ UpdateSave({TRUE}, {TRUE}, {TRUE})
    \/ DeleteApply({TRUE})
    \/ DeleteRemove({TRUE}, {TRUE})
    \/ DownloadSend

SpecAuth == InitAuth /\ [][NextAuth]_vars

Authentic(auth) ==
    auth.kind = "verified" /\ auth.id \in DOMAIN Users /\ Users[auth.id].isActive
Deactivated(auth) ==
    auth.kind = "verified" /\ auth.id \in DOMAIN Users /\ ~Users[auth.id].isActive

RejectedAtGate == Answered /\ resp.stage = "protect"

\* no request gets past protect without the token of an active user, and a
\* request protect rejects is answered 401 with the stores untouched
GateHolds ==
    /\ (req # Idle /\ req.pc # "protect") => Authentic(req.auth)
    /\ RejectedAtGate =>
          (resp.status = 401 /\ records = before.records /\ blobs = before.blobs)

\* C12: a request with a missing, invalid or expired token is answered 401, one
\* whose token resolves to a deactivated identity is answered 403, and in
\* neither case does the request get past the gate or change Record Store or
\* Blob Storage
C12_Gated ==
    /\ (req # Idle /\ req.pc # "protect") => Authentic(req.auth)
    /\ RejectedAtGate =>
          /\ resp.status = IF Deactivated(resp.auth) THEN 403 ELSE 401
          /\ records = before.records
          /\ blobs = before.blobs

----------------------------------------------------------------------------
(* One List request with its own page, limit and search parameters         *)

\* whether the store accepts the pattern: of the characters the model uses in
\* a search string, an unmatched "(" makes the $regex invalid
RegexValid(pattern) == \A i \in 1..Len(pattern) : pattern[i] # "("

\* the find() of getFileRecords rejects on an invalid $regex and on a
\* negative skip; the handler's catch block answers 500
ListFails(q) ==
    \/ (~Falsy(q.search) /\ ~RegexValid(q.search))
    \/ ListPaging(Default(q.page, "1"), Default(q.limit, "10")).skip < 0

\* GET /files?page=..&limit=..&search=..: one request, answered
GetFileRecordsPage ==
    /\ query # NoQuery
    /\ pages = <<>>
    /\ IF ListFails(query)
       THEN pages' = <<[status |-> 500]>>
       ELSE \E ord \in SortedOrders(records, ListQuery(query, tz), ListSort(query)) :
              pages' = <<ListResponse(records, query, tz, Default(query.page, "1"), ord)>>
    /\ UNCHANGED <<lifecycleVars, tz, query, exported, parked, colleges>>

ListQueries ==
    [search : {Undefined, <<"a">>, <<"B">>, <<".">>, <<"(">>},
     fileType : {""},
     startDate : {""},
     endDate : {""},
     sortBy : {UndefinedStr, "fileType"},
     sortOrder : {"asc"},
     page : {UndefinedStr, "abc", "0", "-1", "1", "2", "3", "2x"},
     limit : {UndefinedStr, "abc", "0", "-2", "1", "2"}]

InitList ==
    /\ records \in SampleStores
    /\ blobs = Referenced(records)
    /\ nextId = Len(SampleDocs)
    /\ nextUniq = Len(SampleDocs)
    /\ arrived = 0
    /\ req = Idle
    /\ resp = NoResp
    /\ deleted = {}
    /\ before = [records |-> <<>>, blobs |-> {}, deleted |-> {}]
    /\ emitted = <<>>
    /\ tz = 0
    /\ query \in ListQueries
    /\ pages = <<>>
    /\ exported = NoExport
    /\ parked = Idle
    /\ colleges = <<>>

NextList == GetFileRecordsPage

SpecList == InitList /\ [][NextList]_vars

ListAnswered == pages # <<>>
ListOk == ListAnswered /\ pages[1].status = 200

\* positions from..to of a sequence, empty when from is past its end
Positions(ord, from, to) == [n \in 1..(IF to >= from THEN to - from + 1 ELSE 0) |-> ord[from + n - 1]]

\* C14: for a positive page number and page size, List reports totalRecords =
\* the number of records matching the filter, totalPages = ceil(totalRecords /
\* pageSize) (0 when nothing matches), hasNextPage = (currentPage <
\* totalPages), hasPrevPage = (currentPage > 1), and the page holds exactly
\* the records at positions (page-1)*pageSize+1 .. min(page*pageSize,
\* totalRecords) of the sorted matching set (none when page > totalPages)
C14_PaginationInfo ==
    ListOk =>
        LET pg == pages[1].pagination
            total == Cardinality(Matching(records, ListQuery(query, tz)))
            page == pg.currentPage
            size == pg.recordsPerPage
        IN  (page >= 1 /\ size >= 1) =>
              /\ pg.totalRecords = total
              /\ pg.totalPages * size >= total
              /\ (pg.totalPages - 1) * size < total
              /\ pg.totalPages >= 0
              /\ (total = 0 => pg.totalPages = 0)
              /\ pg.hasNextPage = (page < pg.totalPages)
              /\ pg.hasPrevPage = (page > 1)
              /\ (page > pg.totalPages => pages[1].records = <<>>)
              /\ \E ord \in SortedOrders(records, ListQuery(query, tz), ListSort(query)) :
                    pages[1].records =
                        Positions(ord, (page - 1) * size + 1, Min(page * size, total))

\* page 2 of three matching records, two per page: one record, a previous
\* page and no next page
C14_Witness ==
    /\ ListOk
    /\ pages[1].pagination.currentPage = 2
    /\ pages[1].pagination.recordsPerPage = 2
    /\ pages[1].pagination.totalRecords = 3
    /\ pages[1].pagination.totalPages = 2
    /\ Len(pages[1].records) = 1
    /\ pages[1].pagination.hasPrevPage /\ ~pages[1].pagination.hasNextPage

\* C15: whatever the page and limit parameters are, List works with a page
\* number >= 1 and a page size >= 1 (1 and 10 when the value does not parse):
\* the skip offset is never negative, the page size never zero or negative,
\* and the request is answered with those numbers
C15_PositivePaging ==
    ListAnswered =>
        LET p == ListPaging(Default(query.page, "1"), Default(query.limit, "10"))
        IN  /\ p.pageNum >= 1
            /\ p.limitNum >= 1
            /\ p.skip >= 0
            /\ (RegexValid(query.search) \/ Falsy(query.search)) =>
                  /\ pages[1].status = 200
                  /\ pages[1].pagination.currentPage >= 1
                  /\ pages[1].pagination.recordsPerPage >= 1

\* s occurs in text as a literal substring, ignoring letter case
ContainsIgnoringCase(text, str) ==
    \E i \in 0..(Len(text) - Len(str)) :
        \A j \in 1..Len(str) : ToLowerChar(text[i + j]) = ToLowerChar(str[j])

LiteralMatching(store, q) ==
    {i \in Matching(store, [ListQuery(q, tz) EXCEPT !.description = NoClause]) :
        ContainsIgnoringCase(store[i].description, q.search)}

\* C20: List with a non-empty search s returns exactly the records (matching
\* the other filters) whose description contains s as a literal substring
\* ignoring letter case, whatever characters s is made of
C20_LiteralSearch ==
    (ListAnswered /\ ~Falsy(query.search)
       /\ ListPaging(Default(query.page, "1"), Default(query.limit, "10")).skip >= 0) =>
        /\ pages[1].status = 200
        /\ pages[1].pagination.totalRecords = Cardinality(LiteralMatching(records, query))
        /\ \A n \in 1..Len(pages[1].records) :
               pages[1].records[n] \in LiteralMatching(records, query)

----------------------------------------------------------------------------
(* Create's validation *)

\* a description that was not sent, is empty, or is white space only
BlankDescription(d) == d = Undefined \/ \A i \in 1..Len(d) : IsSpace(d[i])

\* a Create is about to run its handler with a blank description or no file
CreateInvalid ==
    /\ req # Idle
    /\ req.op = "create" /\ req.pc = "handler"
    /\ (BlankDescription(req.body.description) \/ ~req.file.present)

\* the request ends here with 400 and nothing of it is left behind
RejectedClean ==
    /\ req' = Idle
    /\ resp'.op = "create" /\ resp'.status = 400
    /\ records' = before.records
    /\ blobs' = before.blobs
    /\ emitted' = <<>>

\* C16: a Create whose description is empty after trimming, or that carries
\* no file, is answered 400 by the handler's next step and leaves no trace:
\* no record, no event, and Blob Storage as it was when the request arrived
\* (the blob the upload middleware wrote for it is removed)
C16_CreateRejectedClean == [][CreateInvalid => RejectedClean]_vars

\* a Create with a stored upload was answered 400 by the handler and its blob
\* is gone again
C16_Witness ==
    /\ Answered /\ resp.op = "create" /\ resp.status = 400
    /\ resp.stage = "handler" /\ resp.uploaded
    /\ nextUniq >= 1
    /\ records = before.records /\ blobs = before.blobs /\ emitted = <<>>

----------------------------------------------------------------------------
(* Events *)

EventKind(op) ==
    CASE op = "create" -> "file:created"
      [] op = "update" -> "file:updated"
      [] op = "delete" -> "file:deleted"

\* C17: a Create, Update or Delete that returns success has emitted exactly
\* one event, of its own kind, carrying the record as the store holds it after
\* the operation (created / updated) or the id of the row that is gone
\* (deleted); a request that is still being handled, one that returned an
\* error, and a Download have emitted none
C17_OneEventPerSuccess ==
    /\ req # Idle => emitted = <<>>
    /\ (Answered /\ ~Success) => emitted = <<>>
    /\ (Success /\ resp.op = "download") => emitted = <<>>
    /\ (Success /\ resp.op \in {"create", "update", "delete"}) =>
          /\ Len(emitted) = 1
          /\ emitted[1].kind = EventKind(resp.op)
          /\ IF resp.op = "delete"
             THEN emitted[1].recordId = resp.id /\ resp.id \notin DOMAIN records
             ELSE resp.id \in DOMAIN records /\ emitted[1].record = records[resp.id]

\* an Update that replaced the file of a record has announced the record as
\* it is now stored
C17_Witness ==
    /\ Success /\ resp.op = "update" /\ resp.uploaded
    /\ Len(emitted) = 1
    /\ emitted[1].kind = "file:updated"
    /\ emitted[1].record = records[resp.id]
    /\ emitted[1].record.filePath # before.records[resp.id].filePath

\* C18: when io.emit throws, the Create, Update or Delete still returns its
\* success response and the record and blob it wrote stay in place: every
\* Create, Update or Delete whose store write was done is answered with
\* success, and after it every blob an uploaded file was stored under is
\* still there if a record names it
C18_NotifierFailureIsSwallowed ==
    Answered =>
        /\ (resp.op = "create" /\ resp.id \in DOMAIN records) => resp.status = 201
        /\ (resp.op = "delete" /\ resp.id \in DOMAIN before.records
               /\ resp.id \notin DOMAIN records) => resp.status = 200
        /\ (resp.op = "update" /\ resp.id \in DOMAIN records
               /\ records[resp.id] # before.records[resp.id]) => resp.status = 200
        /\ (resp.op \in {"create", "update"} /\ resp.uploaded
               /\ resp.id \in DOMAIN records /\ resp.id \notin DOMAIN before.records)
              => records[resp.id].filePath \in blobs

----------------------------------------------------------------------------
(* Stats over a populated store *)

WithSize(doc, size) == [doc EXCEPT !.fileSize = size]

\* three PDF records, one Other, one Image, one DOCX, of different sizes
StatsDocs ==
    <<WithSize(SampleDocs[1], 5), WithSize(SampleDocs[2], 7),
      WithSize(SampleDocs[3], 11), WithSize(SampleDocs[4], 0),
      WithSize(CreatedDoc(5, <<"c">>, <<"p", ".", "p", "n", "g">>, 16 * MsPerDay), 13),
      WithSize(CreatedDoc(6, <<"d">>, <<"q", ".", "d", "o", "c", "x">>, 17 * MsPerDay), 2)>>

StatsStores == {[i \in S |-> StatsDocs[i]] : S \in SUBSET (1..Len(StatsDocs))}

InitStats ==
    /\ records \in StatsStores
    /\ blobs = Referenced(records)
    /\ nextId = Len(StatsDocs)
    /\ nextUniq = Len(StatsDocs)
    /\ arrived = 1
    /\ req = StatsRequest
    /\ resp = NoResp
    /\ deleted = {}
    /\ before = [records |-> records, blobs |-> blobs, deleted |-> {}]
    /\ emitted = <<>>
    /\ tz = 0
    /\ query = NoQuery
    /\ pages = <<>>
    /\ exported = NoExport
    /\ parked = Idle
    /\ colleges = <<>>

NextStats ==
    \/ StatsAggregate
    \/ StatsCount

SpecStats == InitStats /\ [][NextStats]_vars

StatsAnswered == Answered /\ resp.op = "stats"

RECURSIVE SumOfCounts(_)
SumOfCounts(groups) ==
    IF groups = <<>> THEN 0 ELSE Head(groups).count + SumOfCounts(Tail(groups))

RECURSIVE TotalFileSize(_)
TotalFileSize(ids) ==
    IF ids = {} THEN 0
    ELSE LET i == CHOOSE x \in ids : TRUE
         IN  records[i].fileSize + TotalFileSize(ids \ {i})

\* C19: Stats returns totalRecords = the number of stored records = the sum
\* of the per-type counts, totalSize = the sum of fileSize over all stored
\* records, and byFileType with exactly one entry per file type that has a
\* record (its count and its size total), ordered by count descending
C19_Stats ==
    StatsAnswered =>
        LET d == resp.data
            by == d.byFileType
        IN  /\ resp.status = 200
            /\ d.totalRecords = Cardinality(DOMAIN records)
            /\ d.totalRecords = SumOfCounts(by)
            /\ d.totalSize = TotalFileSize(DOMAIN records)
            /\ {by[k]._id : k \in 1..Len(by)} = {records[i].fileType : i \in DOMAIN records}
            /\ \A k, l \in 1..Len(by) : by[k]._id = by[l]._id => k = l
            /\ \A k \in 1..Len(by) :
                   /\ by[k].count =
                         Cardinality({i \in DOMAIN records : records[i].fileType = by[k]._id})
                   /\ by[k].count >= 1
                   /\ by[k].totalSize =
                         TotalFileSize({i \in DOMAIN records : records[i].fileType = by[k]._id})
            /\ \A k \in 1..(Len(by) - 1) : by[k].count >= by[k + 1].count

\* six records of four types: PDF (3 records, 12 bytes) comes first
C19_Witness ==
    /\ StatsAnswered
    /\ resp.data.totalRecords = 6
    /\ resp.data.totalSize = 38
    /\ Len(resp.data.byFileType) = 4
    /\ resp.data.byFileType[1] = [_id |-> "PDF", count |-> 3, totalSize |-> 12]

----------------------------------------------------------------------------
(* One Create or Update against a store that holds one record              *)

\* one character more than the schema's maxlength allows
LongDescription == [i \in 1..(DescriptionMaxLen + 1) |-> "d"]
LongReference == [i \in 1..(ReferenceMaxLen + 1) |-> "9"]

\* req.body of the request; fileType is a field the handlers never read
EditBodies ==
    [description : {Undefined, <<>>, <<" ">>, <<"b">>, LongDescription},
     fileDate : {UndefinedStr, "", "2024-01-16"},
     letterReferenceNumber : {Undefined, <<>>, <<"x">>, LongReference},
     fileType : {UndefinedStr, "Image"}]

\* the stored record: a PDF with a file date and a reference number
EditDoc ==
    PreSave(NewFileRecord(1,
                          [description |-> <<"a">>, fileDate |-> "2024-01-15",
                           letterReferenceNumber |-> <<"r">>],
                          StoredFile(1, <<"r", ".", "P", "D", "F">>, "application/pdf"),
                          14 * MsPerDay))

EditRequests ==
    {Request("create", UnknownId, b, u) : b \in EditBodies, u \in Uploads \cup {NoFile}}
    \cup {Request("update", i, b, u) :
            i \in {1, UnknownId}, b \in EditBodies, u \in Uploads \cup {NoFile}}

InitEdit ==
    /\ records = (1 :> EditDoc)
    /\ blobs = {EditDoc.filePath}
    /\ nextId = 1
    /\ nextUniq = 1
    /\ arrived = 1
    /\ req \in EditRequests
    /\ resp = NoResp
    /\ deleted = {}
    /\ before = [records |-> (1 :> EditDoc), blobs |-> {EditDoc.filePath}, deleted |-> {}]
    /\ emitted = <<>>
    /\ tz = 0
    /\ query = NoQuery
    /\ pages = <<>>
    /\ exported = NoExport
    /\ parked = Idle
    /\ colleges = <<>>

\* every call succeeds: a save rejects only on validation
NextEdit ==
    \/ MulterUpload
    \/ FindById
    \/ CreateHandler({TRUE})
    \/ CreateSave({TRUE}, {TRUE}, {TRUE})
    \/ UpdateApply({TRUE})
    \/ UpdateSave({TRUE}, {TRUE}, {TRUE})

SpecEdit == InitEdit /\ [][NextEdit]_vars

\* an Update of the stored record is about to save, and nothing but its
\* description can make the save fail
UpdateSaving ==
    /\ req # Idle
    /\ req.op = "update" /\ req.pc = "save"
    /\ req.id \in DOMAIN records
    /\ req.body.letterReferenceNumber # LongReference
    /\ req.body.description # LongDescription

\* the save's step stores what the claim says of the three editable fields
EditedAsSupplied ==
    /\ resp'.status = 200
    /\ records'[req.id].description =
          IF BlankDescription(req.body.description)
          THEN records[req.id].description ELSE Trim(req.body.description)
    /\ records'[req.id].fileDate =
          IF req.body.fileDate = UndefinedStr THEN records[req.id].fileDate
          ELSE IF req.body.fileDate = "" THEN NullDate
          ELSE DateOf(ParseDate(req.body.fileDate))
    /\ records'[req.id].letterReferenceNumber =
          IF req.body.letterReferenceNumber = Undefined
          THEN records[req.id].letterReferenceNumber
          ELSE IF req.body.letterReferenceNumber = <<>> THEN Null
          ELSE Trim(req.body.letterReferenceNumber)

\* C21: an Update changes description only when a non-blank value is supplied
\* (omitted, empty or white-space-only leaves the stored description and the
\* Update succeeds); an empty-string fileDate or letterReferenceNumber clears
\* the field to null and an omitted one leaves it unchanged
C21_UpdateFieldSemantics == [][UpdateSaving => EditedAsSupplied]_vars

\* the Update in flight or just answered, when it addresses a stored record
UpdateOfStored ==
    IF req # Idle
    THEN req.op = "update" /\ req.id \in DOMAIN before.records
    ELSE resp.op = "update" /\ resp.id \in DOMAIN before.records

UpdatedId == IF req # Idle THEN req.id ELSE resp.id

\* multer stored a replacement file for it (none yet while it is in the
\* upload middleware)
CarriesFile == IF req # Idle THEN req.file.present ELSE resp.uploaded

FileFields(doc) ==
    <<doc.fileName, doc.originalName, doc.filePath, doc.fileSize, doc.mimeType,
      doc.fileType, doc.uploadedBy>>

\* C22: during and after an Update the record keeps its id and uploadDateTime;
\* an Update without a replacement file also keeps fileName, originalName,
\* filePath, fileSize, mimeType, fileType and uploadedBy, and leaves Blob
\* Storage as it was
C22_MetadataUpdateIsStoreOnly ==
    UpdateOfStored =>
        /\ UpdatedId \in DOMAIN records
        /\ records[UpdatedId].id = before.records[UpdatedId].id
        /\ records[UpdatedId].uploadDateTime = before.records[UpdatedId].uploadDateTime
        /\ ~CarriesFile =>
              /\ FileFields(records[UpdatedId]) = FileFields(before.records[UpdatedId])
              /\ blobs = before.blobs

\* an Update without a file was answered 200 and changed the description
C22_Witness ==
    /\ Answered /\ resp.op = "update" /\ resp.status = 200 /\ ~resp.uploaded
    /\ resp.id \in DOMAIN records
    /\ records[resp.id].description # before.records[resp.id].description
    /\ FileFields(records[resp.id]) = FileFields(before.records[resp.id])
    /\ blobs = before.blobs

\* an Update was answered whose id named no record when it arrived
UpdateOfUnknownAnswered ==
    Answered /\ resp.op = "update" /\ resp.id \notin DOMAIN before.records

\* nothing of the request is left: no event, no row touched, the same blobs
NoTrace ==
    /\ emitted = <<>>
    /\ records = before.records
    /\ blobs = before.blobs

SavingTooLong ==
    /\ req # Idle
    /\ req.op \in {"create", "update"} /\ req.pc = "save"
    /\ \/ req.body.description = LongDescription
       \/ req.body.letterReferenceNumber = LongReference

\* C29: a Create or Update with a description longer than 2000 characters or
\* a letterReferenceNumber longer than 255 is answered 400 and leaves Record
\* Store and Blob Storage as they were when the request arrived
C29_TooLongIsRejected ==
    [][SavingTooLong => (/\ req' = Idle
                         /\ resp'.status = 400
                         /\ records' = before.records
                         /\ blobs' = before.blobs)]_vars

----------------------------------------------------------------------------
(* Two requests on the same id in flight at once.  Node runs one handler    *)
(* segment at a time; at every await the event loop may go on with the      *)
(* other request.                                                           *)

Answer(r) == [op |-> "answered", answer |-> r]

\* the event loop turns to the parked request: the running one is parked at
\* its await, or, when it has answered, its response is kept in its place
Switch ==
    /\ parked # Idle
    /\ parked.op # "answered"
    /\ req' = parked
    /\ parked' = IF req = Idle THEN Answer(resp) ELSE req
    /\ UNCHANGED <<records, blobs, nextId, nextUniq, arrived, resp, deleted, before,
                   emitted, tz, query, pages, exported, colleges>>

RaceUploads ==
    {NoFile} \cup {u \in Uploads : u.mimetype \in AllowedMimeTypes}

RaceUpdates ==
    {Request("update", 1, [NoBody EXCEPT !.description = d], u) :
        d \in {Undefined, <<"b">>}, u \in RaceUploads}

InitRace ==
    /\ records = (1 :> EditDoc)
    /\ blobs = {EditDoc.filePath}
    /\ nextId = 1
    /\ nextUniq = 1
    /\ arrived = 2
    /\ req \in RaceUpdates
    /\ parked \in RaceUpdates \cup {Request("delete", 1, NoBody, NoFile)}
    /\ colleges = <<>>
    /\ resp = NoResp
    /\ deleted = {}
    /\ before = [records |-> (1 :> EditDoc), blobs |-> {EditDoc.filePath}, deleted |-> {}]
    /\ emitted = <<>>
    /\ tz = 0
    /\ query = NoQuery
    /\ pages = <<>>
    /\ exported = NoExport

\* every call succeeds; the requests interleave at their awaits
NextRace ==
    \/ Switch
    \/ MulterUpload
    \/ FindById
    \/ UpdateApply({TRUE})
    \/ UpdateSave({TRUE}, {TRUE}, {TRUE})
    \/ DeleteApply({TRUE})
    \/ DeleteRemove({TRUE}, {TRUE})

SpecRace == InitRace /\ [][NextRace]_vars

\* both requests have been answered
RaceDone == req = Idle /\ parked # Idle /\ parked.op = "answered"

\* C24: every stored record's fileType is the type classified from the
\* extension of its current fileName, also after file-replace Updates that
\* change the extension
C24_TypeFollowsFileName ==
    \A i \in DOMAIN records : records[i].fileType = TypeByExtension(records[i].fileName)

----------------------------------------------------------------------------
(* Export's archive entry names *)

\* records 1 and 2 were uploaded under the same name; 3 has no extension
NamedDocs ==
    <<CreatedDoc(1, <<"a">>, <<"r", ".", "p", "d", "f">>, 14 * MsPerDay),
      CreatedDoc(2, <<"b">>, <<"r", ".", "p", "d", "f">>, 14 * MsPerDay + 1),
      CreatedDoc(3, <<"c">>, <<"n">>, 14 * MsPerDay + 2)>>

InitArchive ==
    /\ records = [i \in 1..Len(NamedDocs) |-> NamedDocs[i]]
    /\ blobs \in SUBSET Referenced(records)
    /\ nextId = Len(NamedDocs)
    /\ nextUniq = Len(NamedDocs)
    /\ arrived = 0
    /\ req = Idle
    /\ resp = NoResp
    /\ deleted = {}
    /\ before = [records |-> <<>>, blobs |-> {}, deleted |-> {}]
    /\ emitted = <<>>
    /\ tz = 0
    /\ query \in ExportQueries
    /\ pages = <<>>
    /\ exported = NoExport
    /\ parked = Idle
    /\ colleges = <<>>

NextArchive == ExportToExcel

SpecArchive == InitArchive /\ [][NextArchive]_vars

\* k in decimal, zero-padded on the left to three digits
ZeroPadded(k) ==
    IF k < 10 THEN <<"0", "0">> \o NumberToString(k)
    ELSE IF k < 100 THEN <<"0">> \o NumberToString(k)
    ELSE NumberToString(k)

EntryNames == {exported.archive.files[n].name : n \in 1..Len(exported.archive.files)}

\* C25: the archive entry of the record at position k of the sorted result is
\* files/<k zero-padded to three digits>_<originalName>, k being the serial
\* number of that record's spreadsheet row (the numbers of records without a
\* blob are not reused), and no two entries have the same name
C25_ArchiveEntryNames ==
    Exported =>
        /\ \A k \in 1..Len(exported.records) :
             LET doc == records[exported.records[k]]
             IN  doc.filePath \in blobs =>
                   /\ exported.rows[k].id = k
                   /\ \E n \in 1..Len(exported.archive.files) :
                        /\ exported.archive.files[n].path = doc.filePath
                        /\ exported.archive.files[n].name =
                             <<"files/">> \o ZeroPadded(k) \o <<"_">> \o doc.originalName
        /\ Cardinality(EntryNames) = Len(exported.archive.files)

\* the blob of the first record of the result is gone and the two records
\* after it, archived as 002 and 003, share an originalName
C25_Witness ==
    /\ Exported
    /\ Len(exported.records) = 3
    /\ records[exported.records[1]].filePath \notin blobs
    /\ records[exported.records[2]].originalName = records[exported.records[3]].originalName
    /\ Len(exported.archive.files) = 2
    /\ exported.archive.files[1].name =
          <<"files/", "0", "0", "2", "_", "r", ".", "p", "d", "f">>

\* the two responses of the race, in either order
RaceAnswers == {resp, parked.answer}

\* a step of an Update never adds a row, and an Update that answers 200 saved
\* into a row that was there
UpdateSavesIntoExistingRow ==
    (req # Idle /\ req.op = "update") =>
        /\ DOMAIN records' \subseteq DOMAIN records
        /\ (req' = Idle /\ resp'.status = 200) => req.id \in DOMAIN records

\* C26: when a Delete and an Update of the same id race and the Delete answers
\* 200, no record with that id exists once both have answered; the Update's
\* save never re-creates the row, and the Update answers 200 only if it saved
\* while the row was still there (otherwise it fails)
C26_DeleteWins ==
    /\ [](RaceDone => \A i \in deleted : i \notin DOMAIN records)
    /\ [][UpdateSavesIntoExistingRow]_vars

\* the Delete removed the row between the Update's findById and its save:
\* the Delete answered 200, the Update's save rejected (500), the row is gone
C26_Witness ==
    /\ RaceDone
    /\ 1 \in deleted
    /\ 1 \notin DOMAIN records
    /\ \E a \in RaceAnswers : a.op = "update" /\ a.stage = "save" /\ a.status = 500

\* every Update of the race carried a replacement file
RaceOfReplacements == \A a \in RaceAnswers : a.op = "update" => a.uploaded

\* C27: once a file-replace Update racing a Delete, or two file-replace Updates
\* racing each other, on the same id have all answered, every blob in Blob
\* Storage is referenced by a stored record and every stored record's filePath
\* names an existing blob
C27_RaceLeavesStoreAndBlobsAgreeing ==
    (RaceDone /\ RaceOfReplacements) => (NoOrphanBlob /\ NoDanglingRecord)

----------------------------------------------------------------------------
(* Export while another request removes a blob.  exportToExcel is split at  *)
(* its awaits: FileRecord.find, workbook.xlsx.writeBuffer, archive.finalize *)

Positional(docs) == [k \in 1..Len(docs) |-> k]

\* up to `await FileRecord.find(query).sort(sortOptions)`: the documents as
\* they were read
ExportFind ==
    /\ query # NoQuery
    /\ exported = NoExport
    /\ \E ord \in SortedOrders(records, ExportQuery(query, tz), ExportSort(query)) :
         exported' = [stage |-> "found",
                      records |-> ord,
                      docs |-> [k \in 1..Len(ord) |-> records[ord[k]]]]
    /\ UNCHANGED <<lifecycleVars, tz, query, pages, parked, colleges>>

\* the worksheet, up to `await workbook.xlsx.writeBuffer()`
ExportSheet ==
    /\ exported # NoExport
    /\ exported.stage = "found"
    /\ exported' = [stage |-> "sheet",
                    records |-> exported.records,
                    docs |-> exported.docs,
                    rows |-> SheetRows(exported.docs, Positional(exported.docs))]
    /\ UNCHANGED <<lifecycleVars, tz, query, pages, parked, colleges>>

\* the archive loop, up to `await archive.finalize()`: archive.file() queues
\* the path of every document whose blob existsSync finds
ExportQueue ==
    /\ exported # NoExport
    /\ exported.stage = "sheet"
    /\ exported' = [stage |-> "queued",
                    records |-> exported.records,
                    docs |-> exported.docs,
                    rows |-> exported.rows,
                    queued |-> ArchiveFiles(exported.docs, Positional(exported.docs),
                                            blobs, 1)]
    /\ UNCHANGED <<lifecycleVars, tz, query, pages, parked, colleges>>

Finished(e, status, files) ==
    [stage |-> "done", status |-> status, records |-> e.records, docs |-> e.docs,
     rows |-> e.rows, archive |-> [xlsx |-> "records.xlsx", files |-> files]]

\* archive.finalize(): the archiver stats and then reads every queued path.
\* A path that is gone by then was removed before the stat (the entry is
\* dropped with a 'warning' event nothing listens to) or between the stat and
\* the read (the read stream fails, the archive emits 'error', for which no
\* listener is registered, and the response ends without a complete archive).
ExportFinalize ==
    /\ exported # NoExport
    /\ exported.stage = "queued"
    /\ LET present == SelectSeq(exported.queued, LAMBDA f : f.path \in blobs)
       IN  IF present = exported.queued
           THEN exported' = Finished(exported, 200, exported.queued)
           ELSE \/ exported' = Finished(exported, 200, present)
                \/ exported' = Finished(exported, Aborted, <<>>)
    /\ UNCHANGED <<lifecycleVars, tz, query, pages, parked, colleges>>

\* a Delete, or an Update with a replacement file, of one of the records
BlobRemovers ==
    {Request("delete", i, NoBody, NoFile) : i \in 1..Len(NamedDocs)}
    \cup {Request("update", i, NoBody, u) :
            i \in 1..Len(NamedDocs), u \in {v \in Uploads : v.mimetype \in AllowedMimeTypes}}

InitExportRace ==
    /\ records = [i \in 1..Len(NamedDocs) |-> NamedDocs[i]]
    /\ blobs = Referenced(records)
    /\ nextId = Len(NamedDocs)
    /\ nextUniq = Len(NamedDocs)
    /\ arrived = 1
    /\ req \in BlobRemovers
    /\ resp = NoResp
    /\ deleted = {}
    /\ before = [records |-> records, blobs |-> blobs, deleted |-> {}]
    /\ emitted = <<>>
    /\ tz = 0
    /\ query \in ExportQueries
    /\ pages = <<>>
    /\ exported = NoExport
    /\ parked = Idle
    /\ colleges = <<>>

NextExportRace ==
    \/ ExportFind
    \/ ExportSheet
    \/ ExportQueue
    \/ ExportFinalize
    \/ MulterUpload
    \/ FindById
    \/ UpdateApply({TRUE})
    \/ UpdateSave({TRUE}, {TRUE}, {TRUE})
    \/ DeleteApply({TRUE})
    \/ DeleteRemove({TRUE}, {TRUE})

SpecExportRace == InitExportRace /\ [][NextExportRace]_vars

ExportDone == exported # NoExport /\ exported.stage = "done"

\* C28: when the blob of a matching record is removed by a concurrent Delete
\* or file-replace Update at any point after Export has read the matching
\* rows, the Export still completes successfully: one row for every document
\* it read, and archive entries, each for a document it read, only for blobs
\* that were still there when the archive was written
C28_ExportSurvivesBlobRemoval ==
    ExportDone =>
        /\ exported.status = 200
        /\ Len(exported.rows) = Len(exported.docs)
        /\ \A n \in 1..Len(exported.archive.files) :
               \E k \in 1..Len(exported.docs) :
                   exported.archive.files[n] = ArchiveEntry(exported.docs[k], k)

----------------------------------------------------------------------------
(* College accounts: register, collegeLogin (authController.js), and the    *)
(* gate the tokens they issue meet                                          *)

MissingStr(s) == s \in {UndefinedStr, ""}

\* String.prototype.toLowerCase on the e-mail addresses of the model
EmailLower(e) == IF e = "B@x.in" THEN "b@x.in" ELSE e

PasswordMinLen == 6
CollegeIdMinLen == 3

Secret == <<"s", "e", "c", "r", "e", "t">>
Guess  == <<"g", "u", "e", "s", "s", "1">>

\* a college an administrator has approved
ApprovedCollege ==
    [collegeId |-> <<"c", "0", "0">>, email |-> "a@x.in", password |-> Secret,
     role |-> "college", isActive |-> TRUE, isApproved |-> TRUE, lastLogin |-> 0]

\* the _id of the n-th College document created
CollegeObjectId(n) == <<"k1", "k2", "k3", "k4", "k5", "k6">>[n]

RegisterBodies ==
    [collegeId : {Undefined, <<"c", "1">>, <<"c", "0", "1">>},
     collegeName : {Undefined, <<"N">>},
     email : {UndefinedStr, "a@x.in", "B@x.in"},
     password : {Undefined, <<"a", "b", "c">>, Secret},
     isApproved : {UndefinedStr, "true"}]

LoginBodies ==
    [collegeId : {Undefined, <<"c", "0", "0">>, <<"c", "0", "1">>},
     email : {UndefinedStr, "B@x.in"},
     password : {Undefined, Secret, Guess}]

\* new College({...}) of register: role, isActive and isApproved are literals
NewCollege(body) ==
    [collegeId |-> Trim(body.collegeId), email |-> EmailLower(body.email),
     password |-> body.password,
     role |-> "college", isActive |-> TRUE, isApproved |-> FALSE, lastLogin |-> 0]

\* the CollegeSchema validators that the inputs of the model can fail
CollegeValidates(doc) ==
    /\ Len(doc.collegeId) >= CollegeIdMinLen
    /\ Len(doc.password) >= PasswordMinLen

\* College.findOne({ $or: [{ collegeId }, { email: email.toLowerCase() }] })
Registered(store, body) ==
    {k \in DOMAIN store : \/ store[k].collegeId = body.collegeId
                          \/ store[k].email = EmailLower(body.email)}

AuthResponse(op, status, account, token) ==
    [op |-> op, id |-> UnknownId, status |-> status, stage |-> "handler",
     uploaded |-> FALSE, account |-> account, token |-> token]

NoAccount == "none"

\* POST /api/auth/register
Register ==
    /\ req = Idle
    /\ arrived < MaxRequests
    /\ arrived' = arrived + 1
    /\ \E body \in RegisterBodies :
         IF \/ Falsy(body.collegeId) \/ Falsy(body.collegeName)
            \/ MissingStr(body.email) \/ Falsy(body.password)
         THEN /\ resp' = AuthResponse("register", 400, NoAccount, NoToken)
              /\ UNCHANGED colleges
         ELSE IF Len(body.password) < PasswordMinLen
         THEN /\ resp' = AuthResponse("register", 400, NoAccount, NoToken)
              /\ UNCHANGED colleges
         ELSE IF Registered(colleges, body) # {}
         THEN /\ resp' = AuthResponse("register", 400, NoAccount, NoToken)
              /\ UNCHANGED colleges
         ELSE IF ~CollegeValidates(NewCollege(body))
         THEN /\ resp' = AuthResponse("register", 500, NoAccount, NoToken)
              /\ UNCHANGED colleges
         ELSE LET id == CollegeObjectId(Cardinality(DOMAIN colleges) + 1)
              IN  /\ colleges' = (id :> NewCollege(body)) @@ colleges
                  /\ resp' = AuthResponse("register", 201, id, TokenOf(id))
    /\ UNCHANGED <<records, blobs, nextId, nextUniq, req, deleted, before, emitted>>
    /\ UNCHANGED <<tz, query, pages, exported, parked>>

\* the document collegeLogin looks up: by collegeId when one is sent,
\* otherwise by e-mail
FindCollege(store, body) ==
    IF ~Falsy(body.collegeId)
    THEN {k \in DOMAIN store : store[k].collegeId = body.collegeId}
    ELSE {k \in DOMAIN store : store[k].email = EmailLower(body.email)}

\* a collegeLogin without the approval test
CollegeLoginStatusNoApproval(college, password) ==
    IF ~college.isActive THEN 401
    ELSE IF college.password # password THEN 401
    ELSE 200

\* collegeLogin once the document is found
CollegeLoginStatus(college, password) ==
    IF ~college.isActive THEN 401
    ELSE IF ~college.isApproved THEN 403
    ELSE IF college.password # password THEN 401
    ELSE 200

\* POST /api/auth/college/login
CollegeLogin ==
    /\ req = Idle
    /\ arrived < MaxRequests
    /\ arrived' = arrived + 1
    /\ \E body \in LoginBodies :
         IF Falsy(body.password) \/ (Falsy(body.collegeId) /\ MissingStr(body.email))
         THEN /\ resp' = AuthResponse("collegeLogin", 400, NoAccount, NoToken)
              /\ UNCHANGED colleges
         ELSE IF FindCollege(colleges, body) = {}
         THEN /\ resp' = AuthResponse("collegeLogin", 401, NoAccount, NoToken)
              /\ UNCHANGED colleges
         ELSE \E k \in FindCollege(colleges, body) :
                LET status == CollegeLoginStatus(colleges[k], body.password)
                IN  IF status = 200
                    THEN /\ colleges' = [colleges EXCEPT ![k].lastLogin = Now]
                         /\ resp' = AuthResponse("collegeLogin", 200, k, TokenOf(k))
                    ELSE /\ resp' = AuthResponse("collegeLogin", status, k, NoToken)
                         /\ UNCHANGED colleges
    /\ UNCHANGED <<records, blobs, nextId, nextUniq, req, deleted, before, emitted>>
    /\ UNCHANGED <<tz, query, pages, exported, parked>>

\* a request to a route behind protect arrives with no token, a token that
\* does not verify, a user's token, or the token issued for a college
ProtectedArrive ==
    /\ req = Idle
    /\ arrived < MaxRequests
    /\ arrived' = arrived + 1
    /\ \E auth \in Credentials \cup {TokenOf(k) : k \in DOMAIN colleges} :
         req' = GatedRequest([Request("list", UnknownId, NoBody, NoFile)
                                EXCEPT !.pc = "handler"], auth)
    /\ UNCHANGED <<records, blobs, nextId, nextUniq, resp, deleted, before, emitted>>
    /\ UNCHANGED queryVars

InitCollege ==
    /\ records = <<>>
    /\ blobs = {}
    /\ nextId = 0
    /\ nextUniq = 0
    /\ arrived = 0
    /\ req = Idle
    /\ resp = NoResp
    /\ deleted = {}
    /\ before = [records |-> <<>>, blobs |-> {}, deleted |-> {}]
    /\ emitted = <<>>
    /\ tz = 0
    /\ query = NoQuery
    /\ pages = <<>>
    /\ exported = NoExport
    /\ parked = Idle
    /\ colleges = (CollegeObjectId(1) :> ApprovedCollege)

NextCollege ==
    \/ Register
    \/ CollegeLogin
    \/ ProtectedArrive
    \/ Protect
    \/ ReadRoute

SpecCollege == InitCollege /\ [][NextCollege]_vars

\* the token names a college that is not approved
OfUnapprovedCollege(id) == id \in DOMAIN colleges /\ ~colleges[id].isApproved

\* C30: a college account that is not approved never gets past protect and
\* never gets a token from collegeLogin: collegeLogin answers 403 for it, and
\* the token register issued for it is answered 401 by protect
C30_UnapprovedCollegeIsShutOut ==
    /\ (req # Idle /\ req.auth.kind = "verified" /\ OfUnapprovedCollege(req.auth.id))
          => req.pc = "protect"
    /\ (RejectedAtGate /\ resp.auth.kind = "verified" /\ OfUnapprovedCollege(resp.auth.id))
          => resp.status = 401
    /\ (Answered /\ resp.op = "collegeLogin" /\ OfUnapprovedCollege(resp.account))
          => (resp.status = 403 /\ resp.token = NoToken)
    /\ (Answered /\ resp.op = "register" /\ resp.status = 201)
          => (OfUnapprovedCollege(resp.account) /\ resp.token = TokenOf(resp.account))

\* a college registered, and the token register issued for it was answered
\* 401 by protect
C30_Witness ==
    /\ RejectedAtGate
    /\ resp.status = 401
    /\ resp.auth.kind = "verified"
    /\ OfUnapprovedCollege(resp.auth.id)
    /\ resp.auth.id # CollegeObjectId(1)

====
